---- MODULE Spec2Model ----
(***************************************************************************)
(* A model of the hierarchical performance-aggregation core of             *)
(* generate_comprehensive_report.py: fetch_data, combine_data (merge,      *)
(* score, grade, sort), the block and panchayat filters, and               *)
(* create_performance_summary.                                             *)
(*                                                                         *)
(* Numbers are Python floats.  A number with at most three decimals is     *)
(* written by its thousandths (5.0 is JNum(5000)); the arithmetic is that  *)
(* of binary64.  Strings are sequences of one-character strings over       *)
(* Latin-1.                                                                *)
(***************************************************************************)
EXTENDS Integers, Sequences, FiniteSets, TLC

VARIABLES
    mode,          \* which entry point is exercised: "combine", "filter", "score",
                   \* "outlier", "run", "parallel" or "extract"
    pc,            \* position of the program
    ep,            \* index in API_ENDPOINTS of the next fetch of combine_data's loop
    results_data,  \* combine_data: the data objects fetched so far
    last,          \* the outcome of the most recent fetch_data call
    shadow,        \* results_data had every failed fetch succeeded with no rows; in
                   \* the concurrent variant, the answers in their order of arrival
    merged,        \* combine_data: list(merged_map.values()) before scoring
    combined,      \* combine_data's return value
    f_kind,        \* the filter applied: "block" (get_block_data) or "panchayat"
    f_data,        \* the list combine_data returned to the filter
    f_first,       \* filtered_data after the first pass
    f_out,         \* the list the filter returns
    s_item,        \* a merged unit before scoring
    s_scored,      \* the unit after the scoring loop's body
    scope,         \* which combine_data call of a run is under way: "state", "block", "panchayat"
    district_data, \* main: what get_district_data returned
    block_data,    \* create_performance_summary: what get_block_data returned
    bi,            \* index in block_data of the block whose panchayats are fetched
    result,        \* create_performance_summary: the result object, returned at "done"
    fetches        \* the number of fetch_data calls made so far

combineVars == <<ep, results_data, last, shadow, merged, combined>>
filterVars == <<f_kind, f_data, f_first, f_out>>
scoreVars == <<s_item, s_scored>>
runVars == <<scope, district_data, block_data, bi, result>>
vars == <<mode, pc, combineVars, filterVars, scoreVars, runVars, fetches>>

-----------------------------------------------------------------------------
(* Bounds of the model *)

\* at most this many records are returned, in total, to one combine_data call
MaxRecords == 3

\* in a run of main, at most this many records are returned to the
\* combine_data call of get_block_data, and of get_panchayat_data
MaxBlockRecords == 2
MaxPanchayatRecords == 1

\* the filters are given lists of at most this many units, built unit by unit
MaxFilterUnits == 2

\* the outlier pass is given lists of at most this many units
MaxOutlierUnits == 10

\* a unit handed to the scoring step carries at most this many fields
\* besides its group_name
MaxScoreFields == 2

-----------------------------------------------------------------------------
(* JSON values *)

\* The operators of the sections up to Call, which is defined at their end,
\* call each other through it, by name.
RECURSIVE Call(_, _)

JNull == [k |-> "null", n |-> 0, s |-> <<>>]
JNum(m) == [k |-> "num", n |-> m, s |-> <<>>]
JStr(cs) == [k |-> "str", n |-> 0, s |-> cs]

\* A JSON integer is a Python int, of any size: sg * m with m a natural
\* number in limbs of 15 bits, least first, as the mantissa of a float is
\* held below.  Zero is JInt(1, <<>>).  JNum is a float.
JInt(sg, m) == [k |-> "int", sg |-> sg, m |-> m]

\* the value of a "results" key: a list of records, or something that is no list
JList(xs) == [k |-> "list", v |-> xs]
JNotList == [k |-> "null", v |-> <<>>]

\* Python truthiness of a JSON value (the `val or 0` of safe_float)
Truthy(val) ==
    CASE val.k = "null" -> FALSE
      [] val.k = "num" -> val.n # 0
      [] val.k = "int" -> val.m # <<>>
      [] val.k = "str" -> val.s # <<>>
      [] OTHER -> TRUE

\* dict.get(key) and dict.get(key, default)
Get(item, key) == IF key \in DOMAIN item THEN item[key] ELSE JNull
GetDefault(item, key, default) == IF key \in DOMAIN item THEN item[key] ELSE default

\* a Python list is built once: its items are values from then on
ListOf(xs) == xs \o <<>>

\* a Python dict is built once, too
DictOf(item) == item @@ <<>>

\* dict.update(other): the union of the keys, other's value on a collision
Update(item, other) ==
    DictOf([key \in (DOMAIN item) \cup (DOMAIN other) |->
        IF key \in DOMAIN other THEN other[key] ELSE item[key]])

\* item[key] = val
SetKey(item, key, val) ==
    DictOf([kk \in (DOMAIN item) \cup {key} |-> IF kk = key THEN val ELSE item[kk]])

SeqsUpTo(S, n) == UNION {[1..len -> S] : len \in 0..n}

-----------------------------------------------------------------------------
(***************************************************************************)
(* Python floats.  A float is an IEEE-754 binary64 value: sg * m * 2^e     *)
(* with m below 2^53, held as a natural number in limbs of 15 bits, least  *)
(* significant first, so that every step stays inside TLC's integers.      *)
(* Every operation computes the exact result and rounds it once to the     *)
(* nearest float, ties to even, as the hardware does.  The sign of a zero  *)
(* is not kept: no comparison in the program tells 0.0 from -0.0.          *)
(***************************************************************************)
LimbBits == 15
LimbBase == 32768
MantissaBits == 53
MinExponent == -1074
MaxExponent == 971

BigTrim(a) ==
    LET used == {i \in 1..Len(a) : a[i] # 0}
    IN IF used = {} THEN <<>>
       ELSE SubSeq(a, 1, CHOOSE i \in used : \A j \in used : j <= i)

BigOfInt(n) ==
    BigTrim(<<n % LimbBase, (n \div LimbBase) % LimbBase,
              n \div (LimbBase * LimbBase)>>)

BigLimb(a, i) == IF i <= Len(a) THEN a[i] ELSE 0

\* a below 2^31
BigToInt(a) ==
    BigLimb(a, 1) + LimbBase * BigLimb(a, 2) + LimbBase * LimbBase * BigLimb(a, 3)

BigMaxLen(a, b) == IF Len(a) >= Len(b) THEN Len(a) ELSE Len(b)

\* The operations below split the limbs lo..hi in halves and pass the carry
\* from one half to the other.
RECURSIVE BigAddRange(_, _, _, _, _)
BigAddRange(a, b, lo, hi, carry) ==
    IF lo = hi
    THEN LET t == BigLimb(a, lo) + BigLimb(b, lo) + carry
         IN [v |-> <<t % LimbBase>>, c |-> t \div LimbBase]
    ELSE LET mid == (lo + hi) \div 2
             low == BigAddRange(a, b, lo, mid, carry)
             high == BigAddRange(a, b, mid + 1, hi, low.c)
         IN [v |-> low.v \o high.v, c |-> high.c]

BigAdd(a, b) ==
    IF a = <<>> THEN b
    ELSE IF b = <<>> THEN a
    ELSE LET r == Call("BigAddRange", <<a, b, 1, BigMaxLen(a, b), 0>>)
         IN IF r.c = 0 THEN r.v ELSE Append(r.v, r.c)

RECURSIVE BigSubRange(_, _, _, _, _)
BigSubRange(a, b, lo, hi, borrow) ==
    IF lo = hi
    THEN LET t == a[lo] - BigLimb(b, lo) - borrow
         IN IF t < 0 THEN [v |-> <<t + LimbBase>>, c |-> 1]
            ELSE [v |-> <<t>>, c |-> 0]
    ELSE LET mid == (lo + hi) \div 2
             low == BigSubRange(a, b, lo, mid, borrow)
             high == BigSubRange(a, b, mid + 1, hi, low.c)
         IN [v |-> low.v \o high.v, c |-> high.c]

\* a - b for a >= b
BigSub(a, b) ==
    IF b = <<>> THEN a ELSE BigTrim(Call("BigSubRange", <<a, b, 1, Len(a), 0>>).v)

BigCmp(a, b) ==
    IF Len(a) < Len(b) THEN -1
    ELSE IF Len(a) > Len(b) THEN 1
    ELSE LET diff == {i \in 1..Len(a) : a[i] # b[i]}
             top == CHOOSE i \in diff : \A j \in diff : j <= i
         IN IF diff = {} THEN 0 ELSE IF a[top] < b[top] THEN -1 ELSE 1

RECURSIVE BigMulSmallRange(_, _, _, _, _)
BigMulSmallRange(a, k, lo, hi, carry) ==
    IF lo = hi
    THEN LET t == a[lo] * k + carry
         IN [v |-> <<t % LimbBase>>, c |-> t \div LimbBase]
    ELSE LET mid == (lo + hi) \div 2
             low == BigMulSmallRange(a, k, lo, mid, carry)
             high == BigMulSmallRange(a, k, mid + 1, hi, low.c)
         IN [v |-> low.v \o high.v, c |-> high.c]

\* a * k for k in 0..32767
BigMulSmall(a, k) ==
    IF k = 0 \/ a = <<>> THEN <<>>
    ELSE LET r == Call("BigMulSmallRange", <<a, k, 1, Len(a), 0>>)
         IN IF r.c = 0 THEN r.v ELSE Append(r.v, r.c)

BigReverse(a) == ListOf([i \in 1..Len(a) |-> a[Len(a) + 1 - i]])

\* Long division runs from the top limb down; the quotient limbs are
\* collected most significant first.
RECURSIVE BigDivSmallRange(_, _, _, _, _)
BigDivSmallRange(a, k, lo, hi, rem) ==
    IF lo = hi
    THEN LET cur == rem * LimbBase + a[lo]
         IN [q |-> <<cur \div k>>, r |-> cur % k]
    ELSE LET mid == (lo + hi) \div 2
             high == BigDivSmallRange(a, k, mid + 1, hi, rem)
             low == BigDivSmallRange(a, k, lo, mid, high.r)
         IN [q |-> high.q \o low.q, r |-> low.r]

\* quotient and remainder of a by k, for k in 1..32767
BigDivSmall(a, k) ==
    IF a = <<>> THEN [q |-> <<>>, r |-> 0]
    ELSE LET d == Call("BigDivSmallRange", <<a, k, 1, Len(a), 0>>)
         IN [q |-> BigTrim(BigReverse(d.q)), r |-> d.r]

BigZeros(w) == ListOf([i \in 1..w |-> 0])

BigShl(a, s) ==
    IF a = <<>> THEN <<>>
    ELSE BigZeros(s \div LimbBits) \o BigMulSmall(a, 2 ^ (s % LimbBits))

BigShr(a, s) ==
    IF s \div LimbBits >= Len(a) THEN <<>>
    ELSE Call("BigDivSmall", <<SubSeq(a, s \div LimbBits + 1, Len(a)),
                     2 ^ (s % LimbBits)>>).q

RECURSIVE BigMulRange(_, _, _, _)
BigMulRange(a, b, lo, hi) ==
    IF lo = hi THEN BigMulSmall(a, b[lo])
    ELSE LET mid == (lo + hi) \div 2
             high == BigMulRange(a, b, mid + 1, hi)
         IN Call("BigAdd", <<BigMulRange(a, b, lo, mid),
                   IF high = <<>> THEN <<>> ELSE BigZeros(mid + 1 - lo) \o high>>)

BigMul(a, b) ==
    IF a = <<>> \/ b = <<>> THEN <<>> ELSE BigTrim(Call("BigMulRange", <<a, b, 1, Len(b)>>))

IntBitLen(n) == CHOOSE k \in 0..LimbBits : n < 2 ^ k /\ (k = 0 \/ n >= 2 ^ (k - 1))

BigBitLen(a) ==
    IF a = <<>> THEN 0
    ELSE LimbBits * (Len(a) - 1) + IntBitLen(a[Len(a)])

BigIsOdd(a) == a # <<>> /\ a[1] % 2 = 1

\* How the bits of a below position s compare with one half of 2^s:
\* 0 none set, 1 below half, 2 exactly half, 3 above half.
BigLowBits(a, s) ==
    IF s = 0 THEN 0
    ELSE LET top == BigIsOdd(BigShr(a, s - 1))
             rest == Call("BigShl", <<BigShr(a, s - 1), s - 1>>) # a
         IN IF top THEN (IF rest THEN 3 ELSE 2) ELSE (IF rest THEN 1 ELSE 0)

FZero == [c |-> "fin", sg |-> 1, m |-> <<>>, e |-> MinExponent]
FInf(sg) == [c |-> "inf", sg |-> sg, m |-> <<>>, e |-> 0]
FNaN == [c |-> "nan", sg |-> 1, m |-> <<>>, e |-> 0]

\* the exponent of the float nearest to n * 2^e: the one that leaves 53
\* bits, or the least exponent when the value is subnormal
TargetExponent(n, e) ==
    LET t == e + BigBitLen(n) - MantissaBits
    IN IF t > MinExponent THEN t ELSE MinExponent

\* the float sg * r * 2^te, r of 54 bits at most
Normalised(sg, r, te) ==
    LET carried == BigBitLen(r) > MantissaBits
        m == IF carried THEN BigShr(r, 1) ELSE r
    IN IF m = <<>> THEN FZero
       ELSE IF (IF carried THEN te + 1 ELSE te) > MaxExponent THEN FInf(sg)
       ELSE [c |-> "fin", sg |-> sg, m |-> m, e |-> IF carried THEN te + 1 ELSE te]

\* q is what is left of n above the bits that are cut, and low compares
\* those bits with one half (as BigLowBits does): up when they are more, or
\* exactly one half and q is odd
RoundUp(sg, q, low, te, sticky) ==
    Call("Normalised", <<sg,
               IF low = 3 \/ (low = 2 /\ (sticky \/ BigIsOdd(q)))
               THEN Call("BigAdd", <<q, <<1>>>>) ELSE q,
               te>>)

RoundAt(sg, n, shift, te, sticky) ==
    RoundUp(sg,
            IF shift > 0 THEN BigShr(n, shift) ELSE Call("BigShl", <<n, 0 - shift>>),
            IF shift > 0 THEN Call("BigLowBits", <<n, shift>>) ELSE 0,
            te, sticky)

\* The float nearest to sg * (n + f) * 2^e, where f is a fraction in [0, 1)
\* that is positive exactly when sticky holds; with sticky, n has more than
\* 54 bits.
RoundToDouble(sg, n, e, sticky) ==
    Call("RoundAt", <<sg, n, Call("TargetExponent", <<n, e>>) - e, Call("TargetExponent", <<n, e>>), sticky>>)

FNeg(x) ==
    IF x.c = "nan" \/ (x.c = "fin" /\ x.m = <<>>) THEN x
    ELSE [x EXCEPT !.sg = 0 - x.sg]

FAddFinite(x, y) ==
    \* x.e >= y.e
    IF x.e - y.e > 64 THEN x
    ELSE LET nx == Call("BigShl", <<x.m, x.e - y.e>>)
             c == Call("BigCmp", <<nx, y.m>>)
         IN IF x.sg = y.sg THEN RoundToDouble(x.sg, Call("BigAdd", <<nx, y.m>>), y.e, FALSE)
            ELSE IF c = 0 THEN FZero
            ELSE IF c > 0 THEN RoundToDouble(x.sg, Call("BigSub", <<nx, y.m>>), y.e, FALSE)
            ELSE RoundToDouble(y.sg, Call("BigSub", <<y.m, nx>>), y.e, FALSE)

FAdd(x, y) ==
    IF x.c = "nan" \/ y.c = "nan" THEN FNaN
    ELSE IF x.c = "inf" THEN (IF y.c = "inf" /\ y.sg # x.sg THEN FNaN ELSE x)
    ELSE IF y.c = "inf" THEN y
    ELSE IF x.m = <<>> THEN y
    ELSE IF y.m = <<>> THEN x
    ELSE IF x.e >= y.e THEN Call("FAddFinite", <<x, y>>) ELSE Call("FAddFinite", <<y, x>>)

FSub(x, y) == Call("FAdd", <<x, FNeg(y)>>)

FMul(x, y) ==
    IF x.c = "nan" \/ y.c = "nan" THEN FNaN
    ELSE IF x.c = "inf" \/ y.c = "inf"
    THEN IF (x.c = "fin" /\ x.m = <<>>) \/ (y.c = "fin" /\ y.m = <<>>)
         THEN FNaN ELSE FInf(x.sg * y.sg)
    ELSE IF x.m = <<>> \/ y.m = <<>> THEN FZero
    ELSE RoundToDouble(x.sg * y.sg, Call("BigMul", <<x.m, y.m>>), x.e + y.e, FALSE)

\* x / k for a whole number k in 1..32767
FDivInt(x, k) ==
    IF x.c # "fin" \/ x.m = <<>> THEN x
    ELSE LET d == Call("BigDivSmall", <<Call("BigShl", <<x.m, 75>>), k>>)
         IN RoundToDouble(x.sg, d.q, x.e - 75, d.r # 0)

FLess(x, y) ==
    IF x.c = "nan" \/ y.c = "nan" THEN FALSE
    ELSE IF x.c = "inf" THEN x.sg = -1 /\ ~(y.c = "inf" /\ y.sg = -1)
    ELSE IF y.c = "inf" THEN y.sg = 1
    ELSE IF x.m = <<>> THEN y.m # <<>> /\ y.sg = 1
    ELSE IF y.m = <<>> THEN x.sg = -1
    ELSE IF x.sg # y.sg THEN x.sg = -1
    ELSE LET c == IF x.e # y.e THEN (IF x.e < y.e THEN -1 ELSE 1)
                  ELSE Call("BigCmp", <<x.m, y.m>>)
         IN IF x.sg = 1 THEN c < 0 ELSE c > 0

FEqual(x, y) == x.c # "nan" /\ x = y

RECURSIVE BigTimesTenTo(_, _)
BigTimesTenTo(a, x) ==
    IF x = 0 \/ a = <<>> THEN a
    ELSE IF x <= 4 THEN BigMulSmall(a, 10 ^ x)
    ELSE BigTimesTenTo(BigTimesTenTo(a, x \div 2), x - x \div 2)

\* a divided by 10^x, rounded down, and whether anything was cut off
RECURSIVE BigOverTenTo(_, _)
BigOverTenTo(a, x) ==
    IF x = 0 \/ a = <<>> THEN [q |-> a, cut |-> FALSE]
    ELSE IF x <= 4
    THEN LET d == Call("BigDivSmall", <<a, 10 ^ x>>) IN [q |-> d.q, cut |-> d.r # 0]
    ELSE LET first == BigOverTenTo(a, x \div 2)
             second == BigOverTenTo(first.q, x - x \div 2)
         IN IF first.cut THEN [q |-> second.q, cut |-> TRUE] ELSE second

\* The float nearest to sg * d * 10^x (the correctly rounded conversion of a
\* decimal numeral)
FOfDecimal(sg, d, x) ==
    IF d = <<>> THEN FZero
    ELSE IF x >= 0
    THEN IF BigBitLen(d) + 3 * x > 1100 THEN FInf(sg)
         ELSE RoundToDouble(sg, Call("BigTimesTenTo", <<d, x>>), 0, FALSE)
    ELSE IF BigBitLen(d) + 3 * x < -1080 THEN FZero
    ELSE LET s == 60 - 4 * x
             t == Call("BigOverTenTo", <<Call("BigShl", <<d, s>>), 0 - x>>)
         IN RoundToDouble(sg, t.q, 0 - s, t.cut)

FOfThousandths(n) ==
    IF n < 0 THEN Call("FOfDecimal", <<-1, Call("BigOfInt", <<0 - n>>), -3>>)
    ELSE Call("FOfDecimal", <<1, Call("BigOfInt", <<n>>), -3>>)

\* round(x, 2): the exact value is rounded to hundredths, ties to even, and
\* the float nearest to that decimal is returned
FRound2(x) ==
    IF x.c # "fin" \/ x.e >= 0 \/ x.m = <<>> THEN x
    ELSE LET n == BigMulSmall(x.m, 100)
             q == BigShr(n, 0 - x.e)
             low == Call("BigLowBits", <<n, 0 - x.e>>)
             h == IF low = 3 \/ (low = 2 /\ BigIsOdd(q))
                  THEN Call("BigAdd", <<q, <<1>>>>) ELSE q
         IN Call("FOfDecimal", <<x.sg, h, -2>>)

-----------------------------------------------------------------------------
(* Numbers as JSON values *)

\* JNum(n) is the float nearest to n thousandths, for n below 2^20 thousand
\* either way.  Every other float is held with its sign, mantissa
\* and exponent, or is an infinity or a NaN; each float has one form only.
JFloat(x) == [k |-> "flt", sg |-> x.sg, m |-> x.m, e |-> x.e]
JInf(sg) == [k |-> "inf", sg |-> sg]
JNaN == [k |-> "nan"]

IsNumber(val) == val.k \in {"num", "flt", "inf", "nan", "int"}

\* the float nearest to an int, an infinity when the int is beyond the range
\* of the floats
FloatOfInt(val) ==
    IF val.m = <<>> THEN FZero ELSE RoundToDouble(val.sg, val.m, 0, FALSE)

FloatOf(val) ==
    CASE val.k = "num" -> FOfThousandths(val.n)
      [] val.k = "int" -> FloatOfInt(val)
      [] val.k = "flt" -> [c |-> "fin", sg |-> val.sg, m |-> val.m, e |-> val.e]
      [] val.k = "inf" -> FInf(val.sg)
      [] val.k = "nan" -> FNaN

\* the whole number of thousandths nearest to a finite x below 2^21
NearestThousandth(x) ==
    LET t == BigMulSmall(x.m, 1000)
        q == BigToInt(BigShr(t, 0 - x.e))
    IN IF Call("BigLowBits", <<t, 0 - x.e>>) >= 2 THEN q + 1 ELSE q

NumberOf(x) ==
    IF x.c = "nan" THEN JNaN
    ELSE IF x.c = "inf" THEN JInf(x.sg)
    ELSE IF x.m = <<>> THEN JNum(0)
    ELSE IF BigBitLen(x.m) + x.e > 20 THEN JFloat(x)
    ELSE LET n == x.sg * Call("NearestThousandth", <<x>>)
         IN IF n # 0 /\ FOfThousandths(n) = x THEN JNum(n) ELSE JFloat(x)

Magnitude(n) == IF n < 0 THEN 0 - n ELSE n

\* thousandths that are whole eighths are floats whose sums and differences
\* carry no rounding
IsPlain(val) == val.k = "num" /\ val.n % 125 = 0 /\ Magnitude(val.n) <= 500000000

\* an int and a float are equal when the float is finite and is that whole
\* number: the comparison is exact
IntEqualsFloat(i, x) ==
    /\ x.c = "fin"
    /\ IF x.m = <<>> THEN i.m = <<>>
       ELSE /\ i.sg = x.sg
            /\ BigBitLen(i.m) = BigBitLen(x.m) + x.e
            /\ IF x.e >= 0 THEN Call("BigShl", <<x.m, x.e>>) = i.m
               ELSE /\ Call("BigLowBits", <<x.m, 0 - x.e>>) = 0
                    /\ BigShr(x.m, 0 - x.e) = i.m

\* x == y on JSON values; x < y, -x, x + y and x - y on numbers
PyEq(a, b) ==
    IF a.k = "int" /\ b.k = "int" THEN a = b
    ELSE IF a.k = "int" THEN IsNumber(b) /\ Call("IntEqualsFloat", <<a, Call("FloatOf", <<b>>)>>)
    ELSE IF b.k = "int" THEN IsNumber(a) /\ Call("IntEqualsFloat", <<b, Call("FloatOf", <<a>>)>>)
    ELSE a.k # "nan" /\ a = b

\* int + int is exact
IntAdd(a, b) ==
    IF a.sg = b.sg THEN JInt(a.sg, Call("BigAdd", <<a.m, b.m>>))
    ELSE IF Call("BigCmp", <<a.m, b.m>>) = 0 THEN JInt(1, <<>>)
    ELSE IF Call("BigCmp", <<a.m, b.m>>) > 0 THEN JInt(a.sg, Call("BigSub", <<a.m, b.m>>))
    ELSE JInt(b.sg, Call("BigSub", <<b.m, a.m>>))

NumLess(a, b) ==
    IF a.k = "num" /\ b.k = "num" THEN a.n < b.n
    ELSE Call("FLess", <<Call("FloatOf", <<a>>), Call("FloatOf", <<b>>)>>)

NumNeg(a) ==
    CASE a.k = "num" -> JNum(0 - a.n)
      [] a.k = "int" -> IF a.m = <<>> THEN a ELSE JInt(0 - a.sg, a.m)
      [] a.k = "flt" -> [a EXCEPT !.sg = 0 - a.sg]
      [] a.k = "inf" -> JInf(0 - a.sg)
      [] a.k = "nan" -> a

NumAdd(a, b) ==
    IF a.k = "int" /\ b.k = "int" THEN Call("IntAdd", <<a, b>>)
    ELSE IF a.k = "num" /\ a.n = 0 /\ b.k # "int" THEN b
    ELSE IF b.k = "num" /\ b.n = 0 /\ a.k # "int" THEN a
    ELSE IF IsPlain(a) /\ IsPlain(b) THEN JNum(a.n + b.n)
    ELSE Call("NumberOf", <<Call("FAdd", <<Call("FloatOf", <<a>>), Call("FloatOf", <<b>>)>>)>>)

NumSub(a, b) == Call("NumAdd", <<a, Call("NumNeg", <<b>>)>>)

\* round(x, 2): the correctly rounded two-decimal numeral of the float, then
\* the float nearest to it.  Away from a tie of the thousandths the float and
\* its numeral round alike.  round(x, 2) of an int is that int.
Round2(x) ==
    IF x.k = "int" THEN x
    ELSE IF x.k = "num" /\ Magnitude(x.n) % 10 # 5
    THEN JNum((IF x.n < 0 THEN -10 ELSE 10) * ((Magnitude(x.n) + 5) \div 10))
    ELSE Call("NumberOf", <<Call("FRound2", <<Call("FloatOf", <<x>>)>>)>>)

-----------------------------------------------------------------------------
(* API_ENDPOINTS, in the order combine_data iterates them *)

API_ENDPOINTS ==
    << "/api/employment_workers/labour-engagement",
       "/api/employment_workers/avg-persondays",
       "/api/employment_workers/category-employment",
       "/api/employment_workers/disabled",
       "/api/employment_workers/transaction",
       "/api/employment_workers/work-management",
       "/api/employment_workers/recovery",
       "/api/employment_workers/inspection",
       "/api/employment_workers/nmms-usage",
       "/api/employment_workers/geotag-pending-works",
       "/api/employment_workers/labour-material-ratio",
       "/api/employment_workers/women-mate-engagement",
       "/api/employment_workers/timely-payment",
       "/api/employment_workers/zero-muster",
       "/api/employment_workers/fra-beneficiaries" >>

NumEndpoints == Len(API_ENDPOINTS)

-----------------------------------------------------------------------------
(* fetch_data *)

EmptyResult == [results |-> JList(<<>>)]

FailOutcomes == {"raise", "status"}

\* A plausible slip: raise_for_status() is left out, so the body of a
\* non-success response is returned as if it were data.
fetch_data_no_status_check(resp) ==
    IF resp.outcome = "raise"
    THEN [raised |-> FALSE, value |-> EmptyResult]
    ELSE [raised |-> FALSE, value |-> resp.body]

\* A plausible slip: only the transport error is caught, the HTTP error of
\* raise_for_status() propagates to the caller.
fetch_data_status_propagates(resp) ==
    CASE resp.outcome = "ok" -> [raised |-> FALSE, value |-> resp.body]
      [] resp.outcome = "raise" -> [raised |-> FALSE, value |-> EmptyResult]
      [] resp.outcome = "status" -> [raised |-> TRUE, value |-> EmptyResult]

\* resp.outcome: "raise" (requests.get raised), "status" (raise_for_status
\* raised on a non-success status), "ok" (response.json() returned resp.body).
\* Every exception is caught and turned into {"results": []}.
fetch_data(resp) ==
    IF resp.outcome \in FailOutcomes
    THEN [raised |-> FALSE, value |-> EmptyResult]
    ELSE [raised |-> FALSE, value |-> resp.body]

-----------------------------------------------------------------------------
(* combine_data: merge by group_name *)

\* A dict finds a key that is the object asked for, or equals it.  The names
\* come from response.json(), which delivers one NaN object for every NaN it
\* reads: a NaN is the key NaN, and equals no key.
SameKey(key, group_name) == key = group_name \/ Call("PyEq", <<key, group_name>>)

\* the index of the merged unit stored under key group_name, 0 when there is none
KeyIndex(merged_map, group_name) ==
    IF \E i \in 1..Len(merged_map) : SameKey(merged_map[i]["group_name"], group_name)
    THEN CHOOSE i \in 1..Len(merged_map) : SameKey(merged_map[i]["group_name"], group_name)
    ELSE 0

\* A plausible slip: the first record of a unit wins, later fields are dropped.
merge_item_first_wins(merged_map, item) ==
    IF "group_name" \notin DOMAIN item
    THEN merged_map
    ELSE IF KeyIndex(merged_map, item["group_name"]) # 0
         THEN merged_map
         ELSE Append(merged_map, item)

\* A plausible slip: update() is applied the wrong way round, so the value
\* already stored survives a key collision.
merge_item_keep_old(merged_map, item) ==
    IF "group_name" \notin DOMAIN item
    THEN merged_map
    ELSE LET i == KeyIndex(merged_map, item["group_name"]) IN
         IF i # 0
         THEN [merged_map EXCEPT ![i] = Update(item, @)]
         ELSE Append(merged_map, item)

\* A plausible slip: a record without group_name is stored under the key None.
merge_item_keep_nameless(merged_map, item) ==
    LET it == IF "group_name" \in DOMAIN item THEN item
              ELSE SetKey(item, "group_name", JNull)
        i == KeyIndex(merged_map, it["group_name"])
    IN IF i # 0
       THEN [merged_map EXCEPT ![i] = Update(@, it)]
       ELSE Append(merged_map, it)

\* A plausible slip: every named record becomes a unit of its own.
merge_item_always_new(merged_map, item) ==
    IF "group_name" \notin DOMAIN item
    THEN merged_map
    ELSE Append(merged_map, item)

\* A plausible slip: a number that arrives for a field the unit already has
\* as a number is added to it instead of replacing it.
merge_item_accumulate(merged_map, item) ==
    IF "group_name" \notin DOMAIN item
    THEN merged_map
    ELSE LET i == KeyIndex(merged_map, item["group_name"])
             added(old) ==
                 DictOf([key \in (DOMAIN old) \cup (DOMAIN item) |->
                     IF key \notin DOMAIN item THEN old[key]
                     ELSE IF key \in DOMAIN old /\ old[key].k = "num" /\ item[key].k = "num"
                          THEN JNum(old[key].n + item[key].n)
                          ELSE item[key]])
         IN IF i # 0
            THEN [merged_map EXCEPT ![i] = added(@)]
            ELSE Append(merged_map, item)

\* The body of the inner loop.  merged_map is a dict in insertion order; it is
\* held as the sequence of its values, the key of a value being its group_name
\* (dict(item) and update(item) both store the key as the group_name field).
merge_item(merged_map, item) ==
    IF "group_name" \notin DOMAIN item
    THEN merged_map
    ELSE LET i == KeyIndex(merged_map, item["group_name"]) IN
         IF i # 0
         THEN [merged_map EXCEPT ![i] = Update(@, item)]
         ELSE Append(merged_map, item)

merge_items(merged_map, items) ==
    IF items = <<>> THEN merged_map
    ELSE Call("merge_items", <<Call("merge_item", <<merged_map, Head(items)>>), Tail(items)>>)

\* the guard of the outer loop: "results" in data_obj and it is a list
HasResultList(data_obj) ==
    "results" \in DOMAIN data_obj /\ data_obj["results"].k = "list"

merge_results(merged_map, data_objs) ==
    IF data_objs = <<>> THEN merged_map
    ELSE LET data_obj == Head(data_objs) IN
         Call("merge_results", <<
             IF HasResultList(data_obj)
             THEN Call("merge_items", <<merged_map, data_obj["results"].v>>)
             ELSE merged_map,
             Tail(data_objs)>>)

\* A plausible slip: the map of the previous call is still there.
MergeResults_shared_map(data_objs) == Call("merge_results", <<merged, data_objs>>)

\* global_results = list(merged_map.values()), from an empty merged_map
MergeResults(data_objs) == Call("merge_results", <<<<>>, data_objs>>)

-----------------------------------------------------------------------------
(* combine_data: scoring *)

\* the characters of the alphabet that str.split() takes for whitespace
SplitSpaces ==
    { " ", "\t", "\n", "", "\f", "\r", "", "", "", "", "", " ", " " }

IsSpace(c) == c \in SplitSpaces

\* the characters of the alphabet that float() strips from the two ends
FloatSpaces ==
    { " ", "\t", "\n", "", "\f", "\r", "", " ", " " }

StripSpaces(cs) ==
    LET body == {i \in 1..Len(cs) : cs[i] \notin FloatSpaces}
    IN IF body = {} THEN <<>>
       ELSE SubSeq(cs, CHOOSE i \in body : \A j \in body : i <= j,
                       CHOOSE i \in body : \A j \in body : j <= i)

Digits == <<"0", "1", "2", "3", "4", "5", "6", "7", "8", "9">>

IsDigit(c) == \E i \in 1..Len(Digits) : Digits[i] = c
DigitVal(c) == (CHOOSE i \in 1..Len(Digits) : Digits[i] = c) - 1

\* the natural number a run of digits denotes
RECURSIVE DigitsValue(_, _, _)
DigitsValue(cs, lo, hi) ==
    IF lo > hi THEN <<>>
    ELSE IF hi - lo < 4
    THEN Call("BigOfInt", <<DigitVal(cs[lo]) * 10 ^ (hi - lo)
                  + (IF lo = hi THEN 0 ELSE BigToInt(DigitsValue(cs, lo + 1, hi)))>>)
    ELSE LET mid == (lo + hi) \div 2
         IN Call("BigAdd", <<Call("BigTimesTenTo", <<DigitsValue(cs, lo, mid), hi - mid>>),
                   DigitsValue(cs, mid + 1, hi)>>)

\* how many digits stand in cs from position i on
DigitRun(cs, i) ==
    LET stops == {j \in i..Len(cs) : ~IsDigit(cs[j])}
    IN IF stops = {} THEN Len(cs) + 1 - i
       ELSE (CHOOSE j \in stops : \A jj \in stops : j <= jj) - i

UpperCase ==
    <<"A", "B", "C", "D", "E", "F", "G", "H", "I", "J", "K", "L", "M",
       "N", "O", "P", "Q", "R", "S", "T", "U", "V", "W", "X", "Y", "Z",
       "À", "Á", "Â", "Ã", "Ä", "Å", "Æ", "Ç", "È", "É", "Ê", "Ë", "Ì",
       "Í", "Î", "Ï", "Ð", "Ñ", "Ò", "Ó", "Ô", "Õ", "Ö", "Ø", "Ù", "Ú",
       "Û", "Ü", "Ý", "Þ">>
LowerCase ==
    <<"a", "b", "c", "d", "e", "f", "g", "h", "i", "j", "k", "l", "m",
       "n", "o", "p", "q", "r", "s", "t", "u", "v", "w", "x", "y", "z",
       "à", "á", "â", "ã", "ä", "å", "æ", "ç", "è", "é", "ê", "ë", "ì",
       "í", "î", "ï", "ð", "ñ", "ò", "ó", "ô", "õ", "ö", "ø", "ù", "ú",
       "û", "ü", "ý", "þ">>

\* str.lower() of one character of the alphabet
LowerChar(c) ==
    IF \E i \in 1..Len(UpperCase) : UpperCase[i] = c
    THEN LowerCase[CHOOSE i \in 1..Len(UpperCase) : UpperCase[i] = c]
    ELSE c

LowerAll(cs) == ListOf([i \in 1..Len(cs) |-> Call("LowerChar", <<cs[i]>>)])

Raised == [raised |-> TRUE, value |-> JNull]
Fine(v) == [raised |-> FALSE, value |-> v]

\* an exponent too long to matter is as good as the longest that does
ExponentOf(cs, lo, hi) ==
    LET nonzero == {j \in lo..hi : cs[j] # "0"}
        from == IF nonzero = {} THEN hi
                ELSE CHOOSE j \in nonzero : \A jj \in nonzero : j <= jj
    IN IF hi - from >= 7 THEN 9999999 ELSE BigToInt(Call("DigitsValue", <<cs, from, hi>>))

\* what a numeral says: its digits, `frac` of them after the point, and the
\* power of ten that follows them
NumeralRead(sg, digits, frac, power) ==
    IF power.raised THEN Raised
    ELSE Fine([kind |-> "num", sg |-> sg, digits |-> digits, scale |-> power.value - frac])

\* what follows the digits, after position stop: nothing, or e or E, an
\* optional sign and at least one digit
ExponentPart(cs, stop) ==
    IF stop = Len(cs) THEN Fine(0)
    ELSE IF cs[stop + 1] \notin {"e", "E"} THEN Raised
    ELSE LET signed == stop + 1 < Len(cs) /\ cs[stop + 2] \in {"+", "-"}
             first == IF signed THEN stop + 3 ELSE stop + 2
         IN IF Call("DigitRun", <<cs, first>>) = 0 \/ first + Call("DigitRun", <<cs, first>>) - 1 # Len(cs)
            THEN Raised
            ELSE IF signed /\ cs[stop + 2] = "-"
            THEN Fine(0 - Call("ExponentOf", <<cs, first, Len(cs)>>))
            ELSE Fine(Call("ExponentOf", <<cs, first, Len(cs)>>))

\* the numeral whose first `whole` characters are its digits before the point
NumeralParts(sg, cs, whole) ==
    LET point == whole < Len(cs) /\ cs[whole + 1] = "."
        frac == IF point THEN Call("DigitRun", <<cs, whole + 2>>) ELSE 0
        stop == IF point THEN whole + 1 + frac ELSE whole
    IN IF whole + frac = 0 THEN Raised
       ELSE NumeralRead(sg, SubSeq(cs, 1, whole) \o SubSeq(cs, whole + 2, stop),
                        frac, Call("ExponentPart", <<cs, stop>>))

\* after the sign: one of inf, infinity, nan in any case, or a numeral, which
\* is digits with an optional point and fraction, or a point and a fraction,
\* then an optional exponent of at least one digit
ReadSigned(sg, rest) ==
    IF LowerAll(rest) \in {<<"i", "n", "f">>,
                           <<"i", "n", "f", "i", "n", "i", "t", "y">>}
    THEN Fine([kind |-> "inf", sg |-> sg, digits |-> <<>>, scale |-> 0])
    ELSE IF LowerAll(rest) = <<"n", "a", "n">>
    THEN Fine([kind |-> "nan", sg |-> sg, digits |-> <<>>, scale |-> 0])
    ELSE Call("NumeralParts", <<sg, rest, Call("DigitRun", <<rest, 1>>)>>)

\* the text without its underscores: an optional sign, then the rest
ReadPlain(plain) ==
    LET sign == plain # <<>> /\ plain[1] \in {"+", "-"}
    IN Call("ReadSigned", <<IF sign /\ plain[1] = "-" THEN -1 ELSE 1,
                  IF sign THEN Tail(plain) ELSE plain>>)

\* the text without the whitespace at its ends: an underscore may stand
\* between two digits only
ReadStripped(body) ==
    IF \A i \in 1..Len(body) :
           body[i] = "_" =>
               /\ 1 < i
               /\ i < Len(body)
               /\ IsDigit(body[i - 1])
               /\ IsDigit(body[i + 1])
    THEN ReadPlain(SelectSeq(body, LAMBDA c : c # "_"))
    ELSE Raised

\* the float that was read: the one nearest to the numeral
FloatRead(read) ==
    IF read.raised THEN Raised
    ELSE CASE read.value.kind = "inf" -> Fine(JInf(read.value.sg))
           [] read.value.kind = "nan" -> Fine(JNaN)
           [] read.value.kind = "num" ->
                  Fine(Call("NumberOf", <<Call("FOfDecimal", <<read.value.sg,
                                           Call("DigitsValue", <<read.value.digits, 1,
                                                       Len(read.value.digits)>>),
                                           read.value.scale>>)>>))

\* float(s) of a string: whitespace at the two ends is ignored; an
\* underscore may stand between two digits; then an optional sign and either
\* a numeral or one of inf, infinity, nan in any case; anything else raises
\* ValueError.
FloatOfStr(cs) == Call("FloatRead", <<Call("ReadStripped", <<Call("StripSpaces", <<cs>>)>>)>>)

\* except (ValueError, TypeError): return 0.  This 0 is only ever added to
\* floats or to other such zeros, rounded and compared: it is held as 0.0.
ZeroIfRaised(parsed) == IF parsed.raised THEN Fine(JNum(0)) ELSE parsed

\* float(val) of a number: a float is itself; an int gives the float nearest
\* to it, or raises OverflowError when it is beyond the range of the floats
FloatOfNumber(val) ==
    IF val.k # "int" THEN Fine(val)
    ELSE IF FloatOfInt(val).c = "inf" THEN Raised
    ELSE Fine(Call("NumberOf", <<FloatOfInt(val)>>))

\* A plausible slip: float(val) without the try/except and without `or 0`.
safe_float_unguarded(val) ==
    IF IsNumber(val) THEN Call("FloatOfNumber", <<val>>)
    ELSE IF val.k = "str" THEN FloatOfStr(val.s)
    ELSE Raised

\* safe_float: float(val or 0), 0 on ValueError or TypeError.  The
\* OverflowError of an integer beyond the float range is neither: it leaves
\* safe_float, and combine_data with it.
safe_float(val) ==
    LET v == IF Truthy(val) THEN val ELSE JInt(1, <<>>) IN
    IF IsNumber(v) THEN Call("FloatOfNumber", <<v>>)
    ELSE IF v.k # "str" THEN Fine(JNum(0))
    ELSE ZeroIfRaised(FloatOfStr(v.s))

\* the component fields, in the order combine_data reads them
ComponentFields ==
    << "marks", "pd_marks", "total_marks", "disabled_marks",
       "total_transaction_marks", "marks_prev", "marks_curr",
       "total_visit_marks", "pending_marks", "recovery_marks",
       "total_nmms_marks", "phase_0_assets_geotag_marks",
       "phase_1_before_geotag_marks", "phase_2_during_geotag_marks",
       "phase_3_after_geotag_marks", "ratio_marks", "women_mate_marks",
       "timely_payment_marks", "zero_muster_marks", "total_fra_marks" >>

\* acc + t[lo] + ... + t[hi] on floats, added from the left as Python does
SumFrom(t, lo, hi, acc) ==
    IF lo > hi THEN acc
    ELSE IF lo = hi THEN Call("FAdd", <<acc, t[lo]>>)
    ELSE Call("SumFrom", <<t, (lo + hi) \div 2 + 1, hi,
                 Call("SumFrom", <<t, lo, (lo + hi) \div 2, acc>>)>>)

\* t[1] + t[2] + ... + t[n]
SumLeft(t, n) == Call("SumFrom", <<t, 2, n, t[1]>>)

\* the sixteen terms of the sum, in the order of the expression
ScoreTerms(item) ==
    LET labourMarks == Call("FloatOf", <<Call("safe_float", <<Get(item, "marks")>>).value>>)
        pdMarks == Call("FloatOf", <<Call("safe_float", <<Get(item, "pd_marks")>>).value>>)
        catMarks == Call("FloatOf", <<Call("safe_float", <<Get(item, "total_marks")>>).value>>)
        disabledMarks == Call("FloatOf", <<Call("safe_float", <<Get(item, "disabled_marks")>>).value>>)
        transactionMarks == Call("FloatOf", <<Call("safe_float", <<Get(item, "total_transaction_marks")>>).value>>)
        marksPrev == Call("FloatOf", <<Call("safe_float", <<Get(item, "marks_prev")>>).value>>)
        marksCurr == Call("FloatOf", <<Call("safe_float", <<Get(item, "marks_curr")>>).value>>)
        workManagementTotal == Call("FAdd", <<marksPrev, marksCurr>>)
        inspectionMarks == Call("FloatOf", <<Call("safe_float", <<Get(item, "total_visit_marks")>>).value>>)
        pendingMarks == Call("FloatOf", <<Call("safe_float", <<Get(item, "pending_marks")>>).value>>)
        recoveryMarks == Call("FloatOf", <<Call("safe_float", <<Get(item, "recovery_marks")>>).value>>)
        nmmsMarks == Call("FloatOf", <<Call("safe_float", <<Get(item, "total_nmms_marks")>>).value>>)
        geotagMarksPhase0 == Call("FloatOf", <<Call("safe_float", <<Get(item, "phase_0_assets_geotag_marks")>>).value>>)
        geotagMarksPhase1 == Call("FloatOf", <<Call("safe_float", <<Get(item, "phase_1_before_geotag_marks")>>).value>>)
        geotagMarksPhase2 == Call("FloatOf", <<Call("safe_float", <<Get(item, "phase_2_during_geotag_marks")>>).value>>)
        geotagMarksPhase3 == Call("FloatOf", <<Call("safe_float", <<Get(item, "phase_3_after_geotag_marks")>>).value>>)
        totalGeotagMarks ==
            SumLeft(<<geotagMarksPhase0, geotagMarksPhase1,
                      geotagMarksPhase2, geotagMarksPhase3>>, 4)
        ratioMarks == Call("FloatOf", <<Call("safe_float", <<Get(item, "ratio_marks")>>).value>>)
        womenMateMarks == Call("FloatOf", <<Call("safe_float", <<Get(item, "women_mate_marks")>>).value>>)
        timelyPaymentMarks == Call("FloatOf", <<Call("safe_float", <<Get(item, "timely_payment_marks")>>).value>>)
        zeroMusterMarks == Call("FloatOf", <<Call("safe_float", <<Get(item, "zero_muster_marks")>>).value>>)
        fraMarks == Call("FloatOf", <<Call("safe_float", <<Get(item, "total_fra_marks")>>).value>>)
    IN << labourMarks, pdMarks, catMarks, disabledMarks, transactionMarks,
          workManagementTotal, inspectionMarks, pendingMarks, recoveryMarks,
          nmmsMarks, totalGeotagMarks, ratioMarks, womenMateMarks,
          timelyPaymentMarks, zeroMusterMarks, fraMarks >>

\* the sum handed to round(..., 2)
SumComponents(item) == Call("NumberOf", <<SumLeft(Call("ScoreTerms", <<item>>), 16)>>)

\* the twenty components as safe_float returns them
ScoreParts(item) ==
    ListOf([i \in 1..Len(ComponentFields) |->
                Call("safe_float", <<Get(item, ComponentFields[i])>>).value])

\* one of the twenty safe_float calls raises
ScoreRaises(item) ==
    \E i \in 1..Len(ComponentFields) : Call("safe_float", <<Get(item, ComponentFields[i])>>).raised

\* the thousandths of parts[1..n], added as integers
RECURSIVE SumPartsRange(_, _, _)
SumPartsRange(parts, lo, hi) ==
    IF lo > hi THEN 0
    ELSE IF lo = hi THEN parts[lo].n
    ELSE SumPartsRange(parts, lo, (lo + hi) \div 2)
             + SumPartsRange(parts, (lo + hi) \div 2 + 1, hi)

SumParts(parts, n) == Call("SumPartsRange", <<parts, 1, n>>)

\* round(sum, 2).  Twenty components of at most 10000, in thousandths: the
\* sum in floats is within 1e-9 of the exact one, which is 0.001 or more
\* from a tie unless it is one.
RoundedTotal(item) ==
    LET parts == Call("ScoreParts", <<item>>)
        total == SumParts(parts, Len(parts))
        far == /\ \A i \in 1..Len(parts) :
                      parts[i].k = "num" /\ Magnitude(parts[i].n) <= 10000000
               /\ Magnitude(total) % 10 # 5
    IN IF far THEN Call("Round2", <<JNum(total)>>) ELSE Call("Round2", <<SumComponents(item)>>)

\* A plausible slip: the sum is stored without round(..., 2).
overall_total_marks_unrounded(item) ==
    IF Call("ScoreRaises", <<item>>) THEN Raised ELSE Fine(SumComponents(item))

\* A plausible slip: one component (recovery_marks) is left out of the sum.
overall_total_marks_without_recovery(item) ==
    IF Call("ScoreRaises", <<item>>) THEN Raised
    ELSE Fine(Call("RoundedTotal", <<SetKey(item, "recovery_marks", JNull)>>))

\* the value stored in item["overall_total_marks"], unless a safe_float raises
overall_total_marks(item) ==
    IF Call("ScoreRaises", <<item>>) THEN Raised ELSE Fine(Call("RoundedTotal", <<item>>))

\* A plausible slip: the thresholds are tested with > instead of >=.
grade_of_strict(marks) ==
    IF NumLess(JNum(70000), marks) THEN "A"
    ELSE IF NumLess(JNum(60000), marks) THEN "B"
    ELSE IF NumLess(JNum(45000), marks) THEN "C"
    ELSE "D"

\* x >= y on floats
NumAtLeast(a, b) == Call("PyEq", <<a, b>>) \/ NumLess(b, a)

\* the grade chain on item["overall_total_marks"]
grade_of(marks) ==
    IF NumAtLeast(marks, JNum(70000)) THEN "A"
    ELSE IF NumAtLeast(marks, JNum(60000)) THEN "B"
    ELSE IF NumAtLeast(marks, JNum(45000)) THEN "C"
    ELSE "D"

\* item["overall_total_marks"] = marks, then item["grade"]
graded(item, marks) ==
    SetKey(SetKey(item, "overall_total_marks", marks), "grade", JStr(<<Call("grade_of", <<marks>>)>>))

\* the body of the scoring loop for one item
graded_if_scored(item, marks) ==
    IF marks.raised THEN Raised ELSE Fine(Call("graded", <<item, marks.value>>))

score_item(item) == graded_if_scored(item, overall_total_marks(item))

\* the items of a loop that ran to its end
Values(results) == ListOf([i \in 1..Len(results) |-> results[i].value])

\* a loop whose bodies gave these results: the first exception ends it
Looped(results) ==
    IF \E i \in 1..Len(results) : results[i].raised THEN Raised
    ELSE Fine(Values(results))

\* A plausible slip: a unit with a mark that is text is left out, not scored.
score_all_skip_text(items) ==
    LET numeric(item) ==
            \A i \in 1..Len(ComponentFields) : Get(item, ComponentFields[i]).k # "str"
        kept == SelectSeq(items, numeric)
    IN Call("Looped", <<ListOf([i \in 1..Len(kept) |-> Call("score_item", <<kept[i]>>)])>>)

\* the loop `for item in merged_data`: every item gets its score and grade
score_all(items) == Call("Looped", <<ListOf([i \in 1..Len(items) |-> Call("score_item", <<items[i]>>)])>>)

-----------------------------------------------------------------------------
(* list.sort(key=..., reverse=...) of a list shorter than 64 *)

Reverse(xs) == ListOf([i \in 1..Len(xs) |-> xs[Len(xs) + 1 - i]])

\* count_run: the length of the run at the head of a list of two or more,
\* and whether it runs strictly downwards
CountRun(ps) ==
    LET descending == NumLess(ps[2].key, ps[1].key)
        stops == {i \in 3..Len(ps) : NumLess(ps[i].key, ps[i - 1].key) # descending}
    IN [n |-> IF stops = {} THEN Len(ps)
              ELSE (CHOOSE i \in stops : \A j \in stops : i <= j) - 1,
        descending |-> descending]

\* binarysort: where the pivot goes among sorted[l..r-1]
RECURSIVE BinaryPlace(_, _, _, _)
BinaryPlace(sorted, pivot, l, r) ==
    IF l >= r THEN l
    ELSE LET p == l + (r - l) \div 2
         IN IF NumLess(pivot.key, sorted[p].key)
            THEN BinaryPlace(sorted, pivot, l, p)
            ELSE BinaryPlace(sorted, pivot, p + 1, r)

BinarySort(sorted, rest) ==
    IF rest = <<>> THEN sorted
    ELSE LET at == Call("BinaryPlace", <<sorted, Head(rest), 1, Len(sorted) + 1>>)
         IN Call("BinarySort", <<SubSeq(sorted, 1, at - 1) \o <<Head(rest)>>
                           \o SubSeq(sorted, at, Len(sorted)),
                       Tail(rest)>>)

\* the sort of (key, item) pairs, comparing keys with < only
ListSort(ps, reverse) ==
    LET input == IF reverse THEN Reverse(ps) ELSE ps
        run == Call("CountRun", <<input>>)
        head == IF run.descending
                THEN Reverse(SubSeq(input, 1, run.n))
                ELSE SubSeq(input, 1, run.n)
        sorted == IF Len(input) < 2 THEN input
                  ELSE Call("BinarySort", <<head, SubSeq(input, run.n + 1, Len(input))>>)
    IN IF reverse THEN Reverse(sorted) ELSE sorted

-----------------------------------------------------------------------------
(* combine_data: the final sort *)

\* the sort key x.get("overall_total_marks", 0).  overall_total_marks is
\* compared, averaged, subtracted from and rounded, never added to an int:
\* its default 0 is held as 0.0, which does all of these as the int does.
SortKey(x) == GetDefault(x, "overall_total_marks", JNum(0))

Keyed(items) == ListOf([i \in 1..Len(items) |-> [key |-> SortKey(items[i]), item |-> items[i]]])
Unkeyed(ps) == ListOf([i \in 1..Len(ps) |-> ps[i].item])

\* A plausible slip: sort ascending, then reverse, which turns ties around.
sort_desc_reversed(items) == Reverse(Unkeyed(Call("ListSort", <<Keyed(items), FALSE>>)))

\* A plausible slip: reverse=True is left out.
sort_ascending(items) == Unkeyed(Call("ListSort", <<Keyed(items), FALSE>>))

\* list.sort(key=..., reverse=True): stable, descending
sort_desc(items) == Unkeyed(Call("ListSort", <<Keyed(items), TRUE>>))

\* combine_data after its fetch loop
sorted_if_scored(scored) ==
    IF scored.raised THEN Raised ELSE Fine(Call("sort_desc", <<scored.value>>))

\* lines 119-195: merge, score, grade, sort
combine_tail(data_objs) == sorted_if_scored(Call("score_all", <<Call("MergeResults", <<data_objs>>)>>))

-----------------------------------------------------------------------------
(* clean_string_for_comparison and the two filters *)

\* A plausible slip: only leading and trailing whitespace is removed (strip()).
clean_string_strip_only(s) ==
    IF s.k = "null" THEN Fine(<<>>)
    ELSE IF s.k # "str" THEN Raised
    ELSE LET low == LowerAll(s.s)
             body == {i \in 1..Len(low) : ~IsSpace(low[i])}
         IN IF body = {} THEN Fine(<<>>)
            ELSE Fine(SubSeq(low, CHOOSE i \in body : \A j \in body : i <= j,
                                  CHOOSE i \in body : \A j \in body : j <= i))

\* "" for None, else "".join(s.lower().split()); a value that is no string
\* has no lower() and raises AttributeError
clean_string_for_comparison(s) ==
    IF s.k = "null" THEN Fine(<<>>)
    ELSE IF s.k # "str" THEN Raised
    ELSE Fine(SelectSeq(LowerAll(s.s), LAMBDA c : ~IsSpace(c)))

worker_fields == <<"registered_worker", "total_registered_workers", "Total Registered Workers">>

\* A plausible slip: the first alias the unit has ends the loop, null or not.
RECURSIVE first_worker_count_present(_, _)
first_worker_count_present(item, fields) ==
    IF fields = <<>> THEN JNull
    ELSE IF Head(fields) \in DOMAIN item
         THEN item[Head(fields)]
         ELSE first_worker_count_present(item, Tail(fields))

\* the loop over worker_fields: the first alias whose value is not None
RECURSIVE first_worker_count(_, _)
first_worker_count(item, fields) ==
    IF fields = <<>> THEN JNull
    ELSE IF Get(item, Head(fields)).k # "null"
         THEN Get(item, Head(fields))
         ELSE first_worker_count(item, Tail(fields))

total_workers(item) == Call("first_worker_count", <<item, worker_fields>>)

\* total_workers is None or total_workers == 0
NoWorkers(item) ==
    LET w == total_workers(item) IN
    w.k = "null" \/ Call("PyEq", <<w, JInt(1, <<>>)>>)

\* group_name_clean == name_clean, the two sides cleaned first
SameName(item, name) ==
    LET group_name_clean ==
            Call("clean_string_for_comparison", <<GetDefault(item, "group_name", JStr(<<>>))>>)
        name_clean == Call("clean_string_for_comparison", <<name>>)
    IN IF group_name_clean.raised \/ name_clean.raised THEN Raised
       ELSE Fine(group_name_clean.value = name_clean.value)

\* A plausible slip: the worker count is not consulted.
block_should_filter_name_only(item, district) == Call("SameName", <<item, district>>)

\* get_block_data, first pass: should_filter for one item
block_should_filter(item, district) ==
    IF Call("SameName", <<item, district>>).raised THEN Raised
    ELSE Fine(Call("SameName", <<item, district>>).value /\ NoWorkers(item))

\* A plausible slip: the block-name case is missing at panchayat scope.
panchayat_should_filter_district_only(item, district, block) ==
    IF Call("SameName", <<item, district>>).raised \/ Call("SameName", <<item, block>>).raised THEN Raised
    ELSE Fine(Call("SameName", <<item, district>>).value /\ NoWorkers(item))

\* get_panchayat_data, first pass: should_filter for one item
panchayat_should_filter(item, district, block) ==
    IF Call("SameName", <<item, district>>).raised \/ Call("SameName", <<item, block>>).raised THEN Raised
    ELSE IF Call("SameName", <<item, district>>).value /\ NoWorkers(item)
         THEN Fine(TRUE)
         ELSE IF Call("SameName", <<item, block>>).value /\ NoWorkers(item)
              THEN Fine(TRUE)
              ELSE Fine(FALSE)

\* [x.get("overall_total_marks", 0) for x in items]
ScoresOf(items) ==
    ListOf([i \in 1..Len(items) |-> GetDefault(items[i], "overall_total_marks", JNum(0))])

\* the thousandths of scores[1..n], added as integers
SumScores(scores, n) == Call("SumPartsRange", <<scores, 1, n>>)

\* sum(scores) / len(scores) in floats
MeanOf(scores) ==
    FDivInt(SumLeft(ListOf([i \in 1..Len(scores) |-> Call("FloatOf", <<scores[i]>>)]), Len(scores)),
            Len(scores))

\* avg_score * (1 - threshold_percentage/100), step by step in floats
Threshold(scores, threshold_percentage) ==
    Call("FMul", <<Call("MeanOf", <<scores>>),
         FSub(FOfThousandths(1000),
              FDivInt(FOfThousandths(1000 * threshold_percentage), 100))>>)

\* Up to a hundred scores of at most 200, in thousandths, and a whole
\* percentage: the threshold in floats is within 3e-10 of the exact one,
\* and two exact sides that differ do so by 1e-7 or more.
FarApart(item_score, scores, threshold_percentage) ==
    /\ item_score.k = "num" /\ Magnitude(item_score.n) <= 200000
    /\ Len(scores) <= 100
    /\ \A i \in 1..Len(scores) :
           scores[i].k = "num" /\ Magnitude(scores[i].n) <= 200000
    /\ threshold_percentage \in 0..100
    /\ item_score.n * Len(scores) * 100
           # SumScores(scores, Len(scores)) * (100 - threshold_percentage)

\* item_score < threshold
BelowThreshold(item_score, scores, threshold_percentage) ==
    IF Call("FarApart", <<item_score, scores, threshold_percentage>>)
    THEN item_score.n * Len(scores) * 100
             < SumScores(scores, Len(scores)) * (100 - threshold_percentage)
    ELSE Call("FLess", <<Call("FloatOf", <<item_score>>), Call("Threshold", <<scores, threshold_percentage>>)>>)

\* A plausible slip: the item itself is left in the list the mean is taken of.
is_outlier_score_with_self(item, data_list, threshold_percentage) ==
    IF Len(data_list) <= 1 THEN FALSE
    ELSE BelowThreshold(GetDefault(item, "overall_total_marks", JNum(0)),
                        ScoresOf(data_list), threshold_percentage)

\* A plausible slip: a unit exactly at the threshold is an outlier too.
is_outlier_score_not_strict(item, data_list, threshold_percentage) ==
    IF Len(data_list) <= 1 THEN FALSE
    ELSE LET other_items ==
                 SelectSeq(data_list,
                     LAMBDA x : ~Call("PyEq", <<Get(x, "group_name"), Get(item, "group_name")>>))
             item_score == GetDefault(item, "overall_total_marks", JNum(0))
             threshold == Call("Threshold", <<ScoresOf(other_items), threshold_percentage>>)
         IN IF other_items = <<>> THEN FALSE
            ELSE \/ BelowThreshold(item_score, ScoresOf(other_items),
                                   threshold_percentage)
                 \/ FEqual(Call("FloatOf", <<item_score>>), threshold)

\* is_outlier_score: item_score < avg_score * (1 - threshold_percentage/100),
\* avg_score the mean over the items with another group_name
is_outlier_score(item, data_list, threshold_percentage) ==
    IF Len(data_list) <= 1 THEN FALSE
    ELSE LET other_items ==
                 SelectSeq(data_list,
                     LAMBDA x : ~Call("PyEq", <<Get(x, "group_name"), Get(item, "group_name")>>))
             item_score == GetDefault(item, "overall_total_marks", JNum(0))
         IN IF other_items = <<>> THEN FALSE
            ELSE BelowThreshold(item_score, ScoresOf(other_items),
                                threshold_percentage)

\* A plausible slip: the pass runs whatever the number of units.
outlier_pass_unconditional(filtered_data, min_units) ==
    SelectSeq(filtered_data, LAMBDA item : ~Call("is_outlier_score", <<item, filtered_data, 40>>))

\* the second pass of both filters, applied from min_units units on
outlier_pass(filtered_data, min_units) ==
    IF Len(filtered_data) >= min_units
    THEN SelectSeq(filtered_data, LAMBDA item : ~Call("is_outlier_score", <<item, filtered_data, 40>>))
    ELSE filtered_data

\* get_block_data after its combine_data call: the first pass, which raises
\* when a name cannot be cleaned
block_first_pass(data, district) ==
    IF \/ Call("clean_string_for_comparison", <<district>>).raised
       \/ \E i \in 1..Len(data) : Call("block_should_filter", <<data[i], district>>).raised
    THEN Raised
    ELSE Fine(SelectSeq(data, LAMBDA item : ~Call("block_should_filter", <<item, district>>).value))

filter_block_data(data, district) ==
    IF Call("block_first_pass", <<data, district>>).raised THEN Raised
    ELSE Fine(outlier_pass(Call("block_first_pass", <<data, district>>).value, 5))

\* get_panchayat_data after its combine_data call
panchayat_first_pass(data, district, block) ==
    IF \/ Call("clean_string_for_comparison", <<district>>).raised
       \/ Call("clean_string_for_comparison", <<block>>).raised
       \/ \E i \in 1..Len(data) :
              Call("panchayat_should_filter", <<data[i], district, block>>).raised
    THEN Raised
    ELSE Fine(SelectSeq(data,
             LAMBDA item : ~Call("panchayat_should_filter", <<item, district, block>>).value))

filter_panchayat_data(data, district, block) ==
    IF Call("panchayat_first_pass", <<data, district, block>>).raised THEN Raised
    ELSE Fine(outlier_pass(Call("panchayat_first_pass", <<data, district, block>>).value, 10))

-----------------------------------------------------------------------------
(* extract_performance_data, calculate_state_average, the summary's parts *)

MaxMarks == 103

Take(xs, n) == SubSeq(xs, 1, IF n < Len(xs) THEN n ELSE Len(xs))

\* xs[-n:]
LastN(xs, n) == SubSeq(xs, (IF n < Len(xs) THEN Len(xs) - n ELSE 0) + 1, Len(xs))

\* one entry of display_data
display_item(item) ==
    [ name |-> GetDefault(item, "group_name", JStr(<<"U", "n", "k", "n", "o", "w", "n">>)),
      marks |-> Call("Round2", <<GetDefault(item, "overall_total_marks", JNum(0))>>),
      grade |-> GetDefault(item, "grade", JStr(<<>>)),
      maxMarks |-> MaxMarks ]

\* A plausible slip: the panchayat slice is display_data[-2*bottom_n:-bottom_n].
extract_performance_data_second_n(data, top_n, bottom_n, is_panchayat) ==
    LET display_data == ListOf([i \in 1..Len(data) |-> Call("display_item", <<data[i]>>)])
        n == Len(display_data)
    IN [ top5 |-> Take(display_data, top_n),
         bottom5 |->
             IF is_panchayat /\ n > bottom_n + 1
             THEN SubSeq(display_data,
                         (IF n > 2 * bottom_n THEN n - 2 * bottom_n ELSE 0) + 1,
                         n - bottom_n)
             ELSE LastN(display_data, bottom_n) ]

\* A plausible slip: the bottom list is the last bottom_n units at every scope.
extract_performance_data_last_n(data, top_n, bottom_n, is_panchayat) ==
    LET display_data == ListOf([i \in 1..Len(data) |-> Call("display_item", <<data[i]>>)])
    IN [top5 |-> Take(display_data, top_n), bottom5 |-> LastN(display_data, bottom_n)]

\* A plausible slip: the bottom slices start one unit too early.
extract_performance_data_wide_bottom(data, top_n, bottom_n, is_panchayat) ==
    LET display_data == ListOf([i \in 1..Len(data) |-> Call("display_item", <<data[i]>>)])
        n == Len(display_data)
    IN [ top5 |-> Take(display_data, top_n),
         bottom5 |->
             IF is_panchayat /\ n > bottom_n + 1
             THEN SubSeq(display_data, n - bottom_n - 1, n - 1)
             ELSE LastN(display_data, bottom_n + 1) ]

\* extract_performance_data(data, top_n, bottom_n, is_panchayat): the keys
\* are f"top{top_n}" and f"bottom{bottom_n}", every call leaving both at 5
extract_performance_data(data, top_n, bottom_n, is_panchayat) ==
    LET display_data == ListOf([i \in 1..Len(data) |-> Call("display_item", <<data[i]>>)])
        top_performers == Take(display_data, top_n)
        bottom_performers ==
            IF is_panchayat /\ Len(display_data) > bottom_n + 1
            THEN SubSeq(display_data, Len(display_data) - bottom_n, Len(display_data) - 1)
            ELSE LastN(display_data, bottom_n)
    IN [top5 |-> top_performers, bottom5 |-> bottom_performers]

\* A plausible slip: the names are compared as the filters compare them,
\* after clean_string_for_comparison.
find_item_by_name_cleaned(data, name) ==
    LET same(i) == Call("clean_string_for_comparison", <<Get(data[i], "group_name")>>)
                       = Call("clean_string_for_comparison", <<name>>)
    IN IF \E i \in 1..Len(data) : same(i)
       THEN CHOOSE i \in 1..Len(data) : same(i) /\ \A j \in 1..(i - 1) : ~same(j)
       ELSE 0

\* find_item_by_name: the index of the first item of that group_name, 0 for None
find_item_by_name(data, name) ==
    IF \E i \in 1..Len(data) : Call("PyEq", <<Get(data[i], "group_name"), name>>)
    THEN CHOOSE i \in 1..Len(data) :
             /\ Call("PyEq", <<Get(data[i], "group_name"), name>>)
             /\ \A j \in 1..(i - 1) : ~Call("PyEq", <<Get(data[j], "group_name"), name>>)
    ELSE 0

\* round(sum(scores) / len(scores), 2).  Up to a hundred scores of at most
\* 200, in thousandths: the mean in floats is within 3e-10 of the exact one,
\* which is 5e-6 or more from a tie unless it is one.
RoundedMean(scores) ==
    LET total == SumScores(scores, Len(scores))
        count == Len(scores)
        far == /\ count <= 100
               /\ \A i \in 1..count :
                      scores[i].k = "num" /\ Magnitude(scores[i].n) <= 200000
               /\ Magnitude(total) % (10 * count) # 5 * count
    IN IF far
       THEN JNum((IF total < 0 THEN -10 ELSE 10)
                     * ((Magnitude(total) + 5 * count) \div (10 * count)))
       ELSE Call("NumberOf", <<Call("FRound2", <<Call("MeanOf", <<scores>>)>>)>>)

\* A plausible slip: the guard for an empty list is missing and the division
\* raises ZeroDivisionError.
calculate_state_average_unguarded(districts) ==
    IF Len(districts) = 0
    THEN Raised
    ELSE Fine(Call("RoundedMean", <<ScoresOf(districts)>>))

\* calculate_state_average(district_data): 0 (and a warning) for an empty
\* list, held as 0.0
calculate_state_average(districts) ==
    IF Len(districts) = 0
    THEN Fine(JNum(0))
    ELSE Fine(Call("RoundedMean", <<ScoresOf(districts)>>))

\* Python's a + b on JSON values: two ints add exactly; an int and a float
\* add as floats, the int converted first (OverflowError when it is beyond
\* the range of the floats); strings concatenate; anything else raises
\* TypeError
PyAdd(a, b) ==
    IF a.raised \/ b.raised THEN Raised
    ELSE IF a.value.k = "int" /\ b.value.k = "int"
    THEN Fine(Call("IntAdd", <<a.value, b.value>>))
    ELSE IF IsNumber(a.value) /\ IsNumber(b.value)
    THEN IF Call("FloatOfNumber", <<a.value>>).raised \/ Call("FloatOfNumber", <<b.value>>).raised THEN Raised
         ELSE Fine(Call("NumAdd", <<Call("FloatOfNumber", <<a.value>>).value, Call("FloatOfNumber", <<b.value>>).value>>))
    ELSE IF a.value.k = "str" /\ b.value.k = "str"
    THEN Fine(JStr(a.value.s \o b.value.s))
    ELSE Raised

\* the componentMarks dict of the selected district and of a block
component_marks(item) ==
    LET get(f) == GetDefault(item, f, JInt(1, <<>>))
        workManagement == Call("PyAdd", <<Fine(get("marks_prev")), Fine(get("marks_curr"))>>)
        geotag ==
            Call("PyAdd", <<Call("PyAdd", <<Call("PyAdd", <<Fine(get("phase_0_assets_geotag_marks")),
                              Fine(get("phase_1_before_geotag_marks"))>>),
                        Fine(get("phase_2_during_geotag_marks"))>>),
                  Fine(get("phase_3_after_geotag_marks"))>>)
    IN [ raised |-> workManagement.raised \/ geotag.raised,
         value |->
           [ laborEngagement |-> get("marks"),
             personDays |-> get("pd_marks"),
             categoryEmployment |-> get("total_marks"),
             disabledWorkers |-> get("disabled_marks"),
             workManagement |-> workManagement.value,
             inspection |-> get("total_visit_marks"),
             nmmsUsage |-> get("total_nmms_marks"),
             geotagPendingWorks |-> geotag.value,
             labourMaterialRatio |-> get("ratio_marks"),
             womenMateEngagement |-> get("women_mate_marks"),
             timelyPayment |-> get("timely_payment_marks"),
             zeroMuster |-> get("zero_muster_marks"),
             fraBeneficiaries |-> get("total_fra_marks") ] ]

\* round(marks - state_average, 2).  The difference of two floats of at most
\* 100000, in thousandths, is within 1e-10 of the exact one, which is 0.001
\* or more from a tie unless it is one.
RoundedDifference(marks, state_average) ==
    IF /\ marks.k = "num" /\ Magnitude(marks.n) <= 100000000
       /\ state_average.k = "num" /\ Magnitude(state_average.n) <= 100000000
       /\ Magnitude(marks.n - state_average.n) % 10 # 5
    THEN Call("Round2", <<JNum(marks.n - state_average.n)>>)
    ELSE Call("Round2", <<NumSub(marks, state_average)>>)

\* A plausible slip: a unit exactly at the state average counts as above it.
compared_to_state_average_not_strict(marks, state_average) ==
    [ difference |-> Call("RoundedDifference", <<marks, state_average>>),
      isAbove |-> NumAtLeast(marks, state_average),
      stateAverage |-> state_average ]

\* comparedToStateAverage of a unit with these marks
compared_to_state_average(marks, state_average) ==
    [ difference |-> Call("RoundedDifference", <<marks, state_average>>),
      isAbove |-> NumLess(state_average, marks),
      stateAverage |-> state_average ]

\* the result object before the selected district is looked at; the
\* timestamp of metadata is the clock's and is left out
summary_base(districts, state_average, date) ==
    [ metadata |-> [date |-> date, maxMarks |-> MaxMarks, stateAverage |-> state_average],
      districts |-> Call("extract_performance_data", <<districts, 5, 5, FALSE>>) ]

\* A plausible slip: the rank is counted from 0 (idx instead of idx + 1).
district_rank_zero_based(districts, selected_district) ==
    IF \E i \in 1..Len(districts) : Call("PyEq", <<Get(districts[i], "group_name"), selected_district>>)
    THEN CHOOSE i \in 0..(Len(districts) - 1) :
             /\ Call("PyEq", <<Get(districts[i + 1], "group_name"), selected_district>>)
             /\ \A j \in 1..i : ~Call("PyEq", <<Get(districts[j], "group_name"), selected_district>>)
    ELSE -1

\* the enumerate loop: idx + 1 of the first district of that name; -1 when
\* the loop ends without a match and sets no rank
district_rank(districts, selected_district) ==
    IF \E i \in 1..Len(districts) : Call("PyEq", <<Get(districts[i], "group_name"), selected_district>>)
    THEN CHOOSE i \in 1..Len(districts) :
             /\ Call("PyEq", <<Get(districts[i], "group_name"), selected_district>>)
             /\ \A j \in 1..(i - 1) : ~Call("PyEq", <<Get(districts[j], "group_name"), selected_district>>)
    ELSE -1

\* result["selectedDistrict"] up to componentMarks; the key blockDetails is
\* added once get_block_data has returned
selected_district_section(districts, selected_district, state_average) ==
    LET item == districts[Call("find_item_by_name", <<districts, selected_district>>)]
        district_marks == Call("Round2", <<GetDefault(item, "overall_total_marks", JNum(0))>>)
        components == Call("component_marks", <<item>>)
        rank == Call("district_rank", <<districts, selected_district>>)
        ranked == IF rank = -1 THEN {} ELSE {"rank", "totalDistricts"}
        section ==
           [ name |-> selected_district,
             marks |-> district_marks,
             grade |-> GetDefault(item, "grade", JStr(<<>>)),
             maxMarks |-> MaxMarks,
             comparedToStateAverage |-> compared_to_state_average(district_marks, state_average),
             rank |-> rank,
             totalDistricts |-> Len(districts),
             componentMarks |-> components.value ]
    IN [ raised |-> components.raised,
         value |-> DictOf([key \in (DOMAIN section \ {"rank", "totalDistricts"}) \cup ranked
                        |-> section[key]]) ]

\* block_detail before the panchayats of the block are fetched
block_detail(block_item, state_average) ==
    LET block_marks == Call("Round2", <<GetDefault(block_item, "overall_total_marks", JNum(0))>>)
        components == Call("component_marks", <<block_item>>)
    IN [ raised |-> components.raised,
         value |->
           [ name |-> Get(block_item, "group_name"),
             marks |-> block_marks,
             grade |-> GetDefault(block_item, "grade", JStr(<<>>)),
             maxMarks |-> MaxMarks,
             comparedToStateAverage |-> compared_to_state_average(block_marks, state_average),
             componentMarks |-> components.value ] ]

\* A plausible slip: the entry is added whatever get_panchayat_data returned.
with_panchayats_unconditional(detail, panchayat_data) ==
    SetKey(detail, "panchayats", Call("extract_performance_data", <<panchayat_data, 5, 5, TRUE>>))

\* `if panchayat_data:` block_detail["panchayats"] = extract_performance_data(...)
with_panchayats(detail, panchayat_data) ==
    IF panchayat_data # <<>>
    THEN SetKey(detail, "panchayats", Call("extract_performance_data", <<panchayat_data, 5, 5, TRUE>>))
    ELSE detail

\* the sort key x.get("marks", 0)
KeyedDetails(details) ==
    ListOf([i \in 1..Len(details) |-> [key |-> details[i]["marks"], item |-> details[i]]])

\* A plausible slip: reverse=True is left out of the sort.
sort_block_details_ascending(details) == Unkeyed(Call("ListSort", <<KeyedDetails(details), FALSE>>))

\* blockDetails.sort(key=lambda x: x.get("marks", 0), reverse=True)
sort_block_details(details) == Unkeyed(Call("ListSort", <<KeyedDetails(details), TRUE>>))

-----------------------------------------------------------------------------
(* Calls by name *)

CallNames1 == {"BigOfInt", "BigAddRange", "BigAdd", "BigSubRange", "BigSub", "BigCmp", "BigMulSmallRange", "BigDivSmallRange", "BigDivSmall", "BigShl", "BigMulRange", "BigMul"}

Call1(op, args) ==
    CASE op = "BigOfInt" -> BigOfInt(args[1])
      [] op = "BigAddRange" -> BigAddRange(args[1], args[2], args[3], args[4], args[5])
      [] op = "BigAdd" -> BigAdd(args[1], args[2])
      [] op = "BigSubRange" -> BigSubRange(args[1], args[2], args[3], args[4], args[5])
      [] op = "BigSub" -> BigSub(args[1], args[2])
      [] op = "BigCmp" -> BigCmp(args[1], args[2])
      [] op = "BigMulSmallRange" -> BigMulSmallRange(args[1], args[2], args[3], args[4], args[5])
      [] op = "BigDivSmallRange" -> BigDivSmallRange(args[1], args[2], args[3], args[4], args[5])
      [] op = "BigDivSmall" -> BigDivSmall(args[1], args[2])
      [] op = "BigShl" -> BigShl(args[1], args[2])
      [] op = "BigMulRange" -> BigMulRange(args[1], args[2], args[3], args[4])
      [] op = "BigMul" -> BigMul(args[1], args[2])

CallNames2 == {"BigLowBits", "TargetExponent", "Normalised", "RoundAt", "FAddFinite", "FAdd", "FMul", "FLess", "BigTimesTenTo", "BigOverTenTo", "FOfDecimal", "FRound2"}

Call2(op, args) ==
    CASE op = "BigLowBits" -> BigLowBits(args[1], args[2])
      [] op = "TargetExponent" -> TargetExponent(args[1], args[2])
      [] op = "Normalised" -> Normalised(args[1], args[2], args[3])
      [] op = "RoundAt" -> RoundAt(args[1], args[2], args[3], args[4], args[5])
      [] op = "FAddFinite" -> FAddFinite(args[1], args[2])
      [] op = "FAdd" -> FAdd(args[1], args[2])
      [] op = "FMul" -> FMul(args[1], args[2])
      [] op = "FLess" -> FLess(args[1], args[2])
      [] op = "BigTimesTenTo" -> BigTimesTenTo(args[1], args[2])
      [] op = "BigOverTenTo" -> BigOverTenTo(args[1], args[2])
      [] op = "FOfDecimal" -> FOfDecimal(args[1], args[2], args[3])
      [] op = "FRound2" -> FRound2(args[1])

CallNames3 == {"FloatOf", "NearestThousandth", "NumberOf", "IntEqualsFloat", "PyEq", "IntAdd", "NumNeg", "NumAdd", "Round2", "fetch_data_status_propagates", "fetch_data", "merge_item_first_wins"}

Call3(op, args) ==
    CASE op = "FloatOf" -> FloatOf(args[1])
      [] op = "NearestThousandth" -> NearestThousandth(args[1])
      [] op = "NumberOf" -> NumberOf(args[1])
      [] op = "IntEqualsFloat" -> IntEqualsFloat(args[1], args[2])
      [] op = "PyEq" -> PyEq(args[1], args[2])
      [] op = "IntAdd" -> IntAdd(args[1], args[2])
      [] op = "NumNeg" -> NumNeg(args[1])
      [] op = "NumAdd" -> NumAdd(args[1], args[2])
      [] op = "Round2" -> Round2(args[1])
      [] op = "fetch_data_status_propagates" -> fetch_data_status_propagates(args[1])
      [] op = "fetch_data" -> fetch_data(args[1])
      [] op = "merge_item_first_wins" -> merge_item_first_wins(args[1], args[2])

CallNames4 == {"merge_item_keep_old", "merge_item_keep_nameless", "merge_item_accumulate", "merge_item", "merge_items", "merge_results", "MergeResults", "StripSpaces", "DigitsValue", "DigitRun", "LowerChar", "ExponentOf"}

Call4(op, args) ==
    CASE op = "merge_item_keep_old" -> merge_item_keep_old(args[1], args[2])
      [] op = "merge_item_keep_nameless" -> merge_item_keep_nameless(args[1], args[2])
      [] op = "merge_item_accumulate" -> merge_item_accumulate(args[1], args[2])
      [] op = "merge_item" -> merge_item(args[1], args[2])
      [] op = "merge_items" -> merge_items(args[1], args[2])
      [] op = "merge_results" -> merge_results(args[1], args[2])
      [] op = "MergeResults" -> MergeResults(args[1])
      [] op = "StripSpaces" -> StripSpaces(args[1])
      [] op = "DigitsValue" -> DigitsValue(args[1], args[2], args[3])
      [] op = "DigitRun" -> DigitRun(args[1], args[2])
      [] op = "LowerChar" -> LowerChar(args[1])
      [] op = "ExponentOf" -> ExponentOf(args[1], args[2], args[3])

CallNames5 == {"ExponentPart", "NumeralParts", "ReadSigned", "ReadStripped", "FloatRead", "FloatOfNumber", "safe_float", "SumFrom", "ScoreTerms", "ScoreParts", "ScoreRaises", "SumPartsRange"}

Call5(op, args) ==
    CASE op = "ExponentPart" -> ExponentPart(args[1], args[2])
      [] op = "NumeralParts" -> NumeralParts(args[1], args[2], args[3])
      [] op = "ReadSigned" -> ReadSigned(args[1], args[2])
      [] op = "ReadStripped" -> ReadStripped(args[1])
      [] op = "FloatRead" -> FloatRead(args[1])
      [] op = "FloatOfNumber" -> FloatOfNumber(args[1])
      [] op = "safe_float" -> safe_float(args[1])
      [] op = "SumFrom" -> SumFrom(args[1], args[2], args[3], args[4])
      [] op = "ScoreTerms" -> ScoreTerms(args[1])
      [] op = "ScoreParts" -> ScoreParts(args[1])
      [] op = "ScoreRaises" -> ScoreRaises(args[1])
      [] op = "SumPartsRange" -> SumPartsRange(args[1], args[2], args[3])

CallNames6 == {"RoundedTotal", "overall_total_marks_without_recovery", "grade_of_strict", "grade_of", "graded", "score_item", "Looped", "score_all_skip_text", "score_all", "CountRun", "BinaryPlace", "BinarySort"}

Call6(op, args) ==
    CASE op = "RoundedTotal" -> RoundedTotal(args[1])
      [] op = "overall_total_marks_without_recovery" -> overall_total_marks_without_recovery(args[1])
      [] op = "grade_of_strict" -> grade_of_strict(args[1])
      [] op = "grade_of" -> grade_of(args[1])
      [] op = "graded" -> graded(args[1], args[2])
      [] op = "score_item" -> score_item(args[1])
      [] op = "Looped" -> Looped(args[1])
      [] op = "score_all_skip_text" -> score_all_skip_text(args[1])
      [] op = "score_all" -> score_all(args[1])
      [] op = "CountRun" -> CountRun(args[1])
      [] op = "BinaryPlace" -> BinaryPlace(args[1], args[2], args[3], args[4])
      [] op = "BinarySort" -> BinarySort(args[1], args[2])

CallNames7 == {"ListSort", "sort_desc_reversed", "sort_ascending", "sort_desc", "combine_tail", "clean_string_strip_only", "clean_string_for_comparison", "first_worker_count_present", "first_worker_count", "SameName", "block_should_filter", "panchayat_should_filter_district_only"}

Call7(op, args) ==
    CASE op = "ListSort" -> ListSort(args[1], args[2])
      [] op = "sort_desc_reversed" -> sort_desc_reversed(args[1])
      [] op = "sort_ascending" -> sort_ascending(args[1])
      [] op = "sort_desc" -> sort_desc(args[1])
      [] op = "combine_tail" -> combine_tail(args[1])
      [] op = "clean_string_strip_only" -> clean_string_strip_only(args[1])
      [] op = "clean_string_for_comparison" -> clean_string_for_comparison(args[1])
      [] op = "first_worker_count_present" -> first_worker_count_present(args[1], args[2])
      [] op = "first_worker_count" -> first_worker_count(args[1], args[2])
      [] op = "SameName" -> SameName(args[1], args[2])
      [] op = "block_should_filter" -> block_should_filter(args[1], args[2])
      [] op = "panchayat_should_filter_district_only" -> panchayat_should_filter_district_only(args[1], args[2], args[3])

CallNames8 == {"panchayat_should_filter", "MeanOf", "Threshold", "FarApart", "is_outlier_score_with_self", "is_outlier_score_not_strict", "is_outlier_score", "block_first_pass", "filter_block_data", "panchayat_first_pass", "filter_panchayat_data", "display_item"}

Call8(op, args) ==
    CASE op = "panchayat_should_filter" -> panchayat_should_filter(args[1], args[2], args[3])
      [] op = "MeanOf" -> MeanOf(args[1])
      [] op = "Threshold" -> Threshold(args[1], args[2])
      [] op = "FarApart" -> FarApart(args[1], args[2], args[3])
      [] op = "is_outlier_score_with_self" -> is_outlier_score_with_self(args[1], args[2], args[3])
      [] op = "is_outlier_score_not_strict" -> is_outlier_score_not_strict(args[1], args[2], args[3])
      [] op = "is_outlier_score" -> is_outlier_score(args[1], args[2], args[3])
      [] op = "block_first_pass" -> block_first_pass(args[1], args[2])
      [] op = "filter_block_data" -> filter_block_data(args[1], args[2])
      [] op = "panchayat_first_pass" -> panchayat_first_pass(args[1], args[2], args[3])
      [] op = "filter_panchayat_data" -> filter_panchayat_data(args[1], args[2], args[3])
      [] op = "display_item" -> display_item(args[1])

CallNames9 == {"extract_performance_data_second_n", "extract_performance_data_last_n", "extract_performance_data_wide_bottom", "extract_performance_data", "find_item_by_name_cleaned", "find_item_by_name", "RoundedMean", "calculate_state_average_unguarded", "calculate_state_average", "PyAdd", "component_marks", "RoundedDifference"}

Call9(op, args) ==
    CASE op = "extract_performance_data_second_n" -> extract_performance_data_second_n(args[1], args[2], args[3], args[4])
      [] op = "extract_performance_data_last_n" -> extract_performance_data_last_n(args[1], args[2], args[3], args[4])
      [] op = "extract_performance_data_wide_bottom" -> extract_performance_data_wide_bottom(args[1], args[2], args[3], args[4])
      [] op = "extract_performance_data" -> extract_performance_data(args[1], args[2], args[3], args[4])
      [] op = "find_item_by_name_cleaned" -> find_item_by_name_cleaned(args[1], args[2])
      [] op = "find_item_by_name" -> find_item_by_name(args[1], args[2])
      [] op = "RoundedMean" -> RoundedMean(args[1])
      [] op = "calculate_state_average_unguarded" -> calculate_state_average_unguarded(args[1])
      [] op = "calculate_state_average" -> calculate_state_average(args[1])
      [] op = "PyAdd" -> PyAdd(args[1], args[2])
      [] op = "component_marks" -> component_marks(args[1])
      [] op = "RoundedDifference" -> RoundedDifference(args[1], args[2])

CallNames10 == {"district_rank_zero_based", "district_rank", "selected_district_section", "block_detail"}

Call10(op, args) ==
    CASE op = "district_rank_zero_based" -> district_rank_zero_based(args[1], args[2])
      [] op = "district_rank" -> district_rank(args[1], args[2])
      [] op = "selected_district_section" -> selected_district_section(args[1], args[2], args[3])
      [] op = "block_detail" -> block_detail(args[1], args[2])

\* the operator of this name, applied to these arguments
Call(op, args) ==
    CASE op \in CallNames1 -> Call1(op, args)
      [] op \in CallNames2 -> Call2(op, args)
      [] op \in CallNames3 -> Call3(op, args)
      [] op \in CallNames4 -> Call4(op, args)
      [] op \in CallNames5 -> Call5(op, args)
      [] op \in CallNames6 -> Call6(op, args)
      [] op \in CallNames7 -> Call7(op, args)
      [] op \in CallNames8 -> Call8(op, args)
      [] op \in CallNames9 -> Call9(op, args)
      [] op \in CallNames10 -> Call10(op, args)

-----------------------------------------------------------------------------
(* The data source, as far as one combine_data call sees it *)

NameA == JStr(<<"a">>)
NameB == JStr(<<"b">>)
NameC == JStr(<<"c">>)

\* the records the data source may return; one is named NaN, which a JSON
\* document may carry
RecordPool ==
    { [group_name |-> NameA, marks |-> JNum(5000)],
      [group_name |-> NameA, pd_marks |-> JNum(3000)],
      [group_name |-> NameA, marks |-> JNum(7000), total_registered_workers |-> JNum(0)],
      [group_name |-> NameB, marks |-> JNum(7000)],
      [group_name |-> NameB, pd_marks |-> JStr(<<"x">>)],
      [group_name |-> NameC, pd_marks |-> JNum(8000)],
      [group_name |-> JNaN, pd_marks |-> JNum(1000)],
      [marks |-> JNum(9000)] }

\* a body without a "results" key, such as an error document
NoResultsBody == [detail |-> JNotList]

\* the endpoints that return records in this model; the others answer with
\* an empty list, or fail
DataEndpoints == {NumEndpoints - 1, NumEndpoints}

RECURSIVE RecordCount(_)
RecordCount(data_objs) ==
    IF data_objs = <<>> THEN 0
    ELSE (IF HasResultList(Head(data_objs)) THEN Len(Head(data_objs)["results"].v) ELSE 0)
         + RecordCount(Tail(data_objs))

\* what endpoint number e may answer when it draws its records from `pool`
\* and `room` more records may be returned; `shapes` says whether the first
\* endpoint also answers with documents that carry no list
Responses(e, pool, room, shapes) ==
    LET okBodies ==
            IF e \in DataEndpoints
            THEN {[results |-> JList(xs)] : xs \in SeqsUpTo(pool, room)}
            ELSE IF e = 1 /\ shapes
            THEN {EmptyResult, NoResultsBody, [results |-> JNotList]}
            ELSE {EmptyResult}
        \* the body that comes with a non-success status: an error document,
        \* rows that must not be used, or an empty list
        errorBodies ==
            IF e \in DataEndpoints
            THEN {NoResultsBody,
                  [results |-> JList(<<[group_name |-> NameB, marks |-> JNum(1000)]>>)]}
            ELSE IF e = 1 /\ shapes
            THEN {NoResultsBody}
            ELSE {EmptyResult}
    IN {[outcome |-> "ok", body |-> b] : b \in okBodies}
       \cup {[outcome |-> "status", body |-> b] : b \in errorBodies}
       \cup {[outcome |-> "raise", body |-> NoResultsBody]}

-----------------------------------------------------------------------------
(* One combine_data call *)

NoFetch == [endpoint |-> 0, outcome |-> "none"]

\* no result object yet, or none returned
NoSummary == <<>>

\* outside a run of main
NoRun ==
    /\ scope = "none"
    /\ district_data = <<>>
    /\ block_data = <<>>
    /\ bi = 0
    /\ result = NoSummary
    /\ fetches = 0

InitCombine ==
    /\ mode = "combine"
    /\ pc = "fetch"
    /\ ep = 1
    /\ results_data = <<>>
    /\ last = NoFetch
    /\ shadow = <<>>
    /\ merged = <<>>
    /\ combined = <<>>
    /\ f_kind = "none"
    /\ f_data = <<>>
    /\ f_first = <<>>
    /\ f_out = <<>>
    /\ s_item = <<>>
    /\ s_scored = <<>>
    /\ NoRun

\* the district main is run for, and its date
SelectedDistrict == NameA
RunDate == "2025-03-19"

\* the records the data source may return for params = {date}
StatePool ==
    { [group_name |-> NameA, marks |-> JNum(7000)],
      [group_name |-> NameB, marks |-> JNum(7000)],
      [group_name |-> JStr(<<"A">>), pd_marks |-> JNum(8000)],
      [group_name |-> NameA, marks_prev |-> JNull] }

\* ... for params = {date, district}: two blocks, a row that repeats the
\* district's name with no workers, a block with a mark that is no number,
\* a block with two marks that are integers
BlockC == JStr(<<"c">>)
BlockD == JStr(<<"d">>)

BlockPool ==
    { [group_name |-> BlockC, marks |-> JNum(4000)],
      [group_name |-> BlockD, marks |-> JNum(90000)],
      [group_name |-> JStr(<<"A", " ">>), total_registered_workers |-> JNum(0)],
      [group_name |-> BlockC, marks_curr |-> JStr(<<"x">>)],
      [group_name |-> BlockD, pd_marks |-> JNum(4000), marks_prev |-> JInt(1, <<2>>),
       marks_curr |-> JInt(1, <<1>>)] }

\* ... for params = {date, district, block}: a panchayat, and a row that
\* repeats the name of block d with no workers
PanchayatPool ==
    { [group_name |-> JStr(<<"p">>), marks |-> JNum(3000)],
      [group_name |-> JStr(<<"D">>), marks |-> JNum(6000)] }

\* the records and the record budget of the combine_data call under way
FetchPool ==
    CASE scope = "state" -> StatePool
      [] scope = "block" -> BlockPool
      [] scope = "panchayat" -> PanchayatPool
      [] OTHER -> RecordPool

FetchBound ==
    CASE scope = "state" -> MaxRecords
      [] scope = "block" -> MaxBlockRecords
      [] scope = "panchayat" -> MaxPanchayatRecords
      [] OTHER -> MaxRecords

\* how many more records the combine_data call under way may be given
FetchRoom ==
    IF FetchBound > RecordCount(results_data)
    THEN FetchBound - RecordCount(results_data)
    ELSE 0

\* Longer answers, each returned whole by the first of the data endpoints
\* when no record has been returned before.
\* Eight districts, the selected one last, far below the others and with no
\* workers; their mean is 65.035:
StateScenario ==
    << [group_name |-> NameA, marks |-> JNum(10000), total_registered_workers |-> JNum(0)],
       [group_name |-> JStr(<<"i">>), marks |-> JNum(60280)],
       [group_name |-> JStr(<<"h">>), marks |-> JNum(70000)],
       [group_name |-> JStr(<<"g">>), marks |-> JNum(72000)],
       [group_name |-> JStr(<<"f">>), marks |-> JNum(74000)],
       [group_name |-> JStr(<<"e">>), marks |-> JNum(76000)],
       [group_name |-> NameB, marks |-> JNum(78000)],
       [group_name |-> NameC, marks |-> JNum(80000)] >>

ScenarioLetters == <<"e", "f", "g", "h", "i", "j", "k", "l", "m", "n", "o", "p">>

\* n panchayats with marks low, low + 1, ..., in the order of the answer
PanchayatScenario(n, low) ==
    ListOf([i \in 1..n |-> [group_name |-> JStr(<<"v", ScenarioLetters[i]>>),
                     marks |-> JNum(low + 1000 * (i - 1))]])

PanchayatScenarioSizes == {6, 7, 12}

ScenarioResponses ==
    IF mode = "run" /\ ep = NumEndpoints - 1 /\ RecordCount(results_data) = 0
    THEN {[outcome |-> "ok", body |-> [results |-> JList(xs)]] :
            xs \in CASE scope = "state" -> {StateScenario}
                     [] scope = "panchayat" ->
                            {PanchayatScenario(n, 50000) : n \in PanchayatScenarioSizes}
                     [] OTHER -> {}}
    ELSE {}

\* one iteration of `for endpoint in API_ENDPOINTS`: fetch_data and append
FetchData ==
    /\ pc = "fetch"
    /\ ep <= NumEndpoints
    /\ \E resp \in Responses(ep, FetchPool, FetchRoom, mode = "combine")
                      \cup ScenarioResponses :
         LET r == Call("fetch_data", <<resp>>)
             quiet == Call("fetch_data", <<[outcome |-> "ok", body |-> EmptyResult]>>)
         IN /\ last' = [endpoint |-> ep, outcome |-> resp.outcome]
            /\ IF r.raised
               THEN /\ pc' = "failed"
                    /\ UNCHANGED <<ep, results_data, shadow>>
               ELSE /\ results_data' = Append(results_data, r.value)
                    /\ shadow' = Append(shadow,
                           IF resp.outcome \in FailOutcomes THEN quiet.value ELSE r.value)
                    /\ ep' = ep + 1
                    /\ pc' = IF ep = NumEndpoints THEN "merge" ELSE "fetch"
    /\ fetches' = fetches + 1
    /\ UNCHANGED <<mode, merged, combined, filterVars, scoreVars, runVars>>

\* combine_data returns its list, or an exception leaves it
Returned(data) ==
    IF data.raised
    THEN /\ combined' = <<>>
         /\ pc' = "failed"
    ELSE /\ combined' = data.value
         /\ pc' = "done"

\* the rest of combine_data: merge, score, grade, sort, return
Combine ==
    /\ mode = "combine"
    /\ pc = "merge"
    /\ merged' = Call("MergeResults", <<results_data>>)
    /\ Returned(Call("combine_tail", <<results_data>>))
    /\ UNCHANGED <<mode, ep, results_data, last, shadow, filterVars, scoreVars, runVars, fetches>>

NextCombine == FetchData \/ Combine

SpecCombine == InitCombine /\ [][NextCombine]_vars

-----------------------------------------------------------------------------
(* The two filters on lists as combine_data returns them *)

\* the district and the block the filters are called with
FilterDistrict == JStr(<<"R", "a">>)
FilterBlock == JStr(<<"K", "d">>)

\* names that normalise to the district's or the block's, and names that do not
DistrictLikeNames == {JStr(<<"r", "\t", "A">>), JStr(<<"R", "a">>)}
BlockLikeNames == {JStr(<<"\n", "k", "D">>)}
PlainNames == <<JStr(<<"a">>), JStr(<<"a", "b", "c">>), JStr(<<"d">>), JStr(<<"b">>)>>

\* a group_name that is a number, as a JSON document may carry one
NumberNames == {JNum(5000)}

\* the worker fields a unit may carry
WorkerVariants ==
    { <<>>,
      [registered_worker |-> JNum(0)],
      [registered_worker |-> JNum(5000)],
      [registered_worker |-> JNull, total_registered_workers |-> JNum(0)],
      [registered_worker |-> JNull, total_registered_workers |-> JNum(5000)],
      [registered_worker |-> JInt(1, <<>>), total_registered_workers |-> JNum(5000)],
      SetKey([total_registered_workers |-> JNull], "Total Registered Workers", JNum(0)) }

FilterScores == {0, 50000}

UnitNames(data) == {Get(data[i], "group_name") : i \in 1..Len(data)}

\* the plain name a list of this length takes next
NextPlainName(data) == PlainNames[Len(data) + 1]

\* a unit as combine_data leaves it: merged fields, overall_total_marks, grade
MakeUnit(name, workers, marks) ==
    Call("score_item", <<Update([group_name |-> name, marks |-> JNum(marks)], workers)>>).value

\* the spec scenario: six blocks, one of them an echo of the district with no workers
ScenarioSix ==
    << MakeUnit(JStr(<<"p", "1">>), <<>>, 50000),
       MakeUnit(JStr(<<"p", "2">>), <<>>, 48000),
       MakeUnit(JStr(<<"p", "3">>), <<>>, 46000),
       MakeUnit(JStr(<<"p", "4">>), <<>>, 44000),
       MakeUnit(JStr(<<"p", "5">>), <<>>, 42000),
       MakeUnit(JStr(<<"r", "\t", "A">>), [registered_worker |-> JNum(0)], 0) >>

InitFilter ==
    /\ mode = "filter"
    /\ pc = "build"
    /\ ep = 0
    /\ results_data = <<>>
    /\ last = NoFetch
    /\ shadow = <<>>
    /\ merged = <<>>
    /\ combined = <<>>
    /\ f_kind = "none"
    /\ f_data \in {<<>>, ScenarioSix}
    /\ f_first = <<>>
    /\ f_out = <<>>
    /\ s_item = <<>>
    /\ s_scored = <<>>
    /\ NoRun

\* the data source adds one more unit to the list combine_data will return:
\* names stay distinct and the list stays sorted by score, descending
AddUnit ==
    /\ mode = "filter"
    /\ pc = "build"
    /\ Len(f_data) < MaxFilterUnits
    /\ \E name \in (DistrictLikeNames \cup BlockLikeNames \cup NumberNames
                          \cup {NextPlainName(f_data)}) \ UnitNames(f_data),
          workers \in WorkerVariants,
          marks \in FilterScores :
         /\ IF f_data = <<>> THEN TRUE ELSE ~NumLess(SortKey(f_data[Len(f_data)]), JNum(marks))
         /\ f_data' = Append(f_data, MakeUnit(name, workers, marks))
    /\ UNCHANGED <<mode, pc, combineVars, f_kind, f_first, f_out, scoreVars, runVars, fetches>>

\* get_block_data(date, district) on the list
ApplyBlockFilter ==
    /\ mode \in {"filter", "outlier"}
    /\ pc = "build"
    /\ f_kind' = "block"
    /\ LET first == Call("block_first_pass", <<f_data, FilterDistrict>>)
           out == Call("filter_block_data", <<f_data, FilterDistrict>>)
       IN IF out.raised
          THEN /\ f_first' = <<>>
               /\ f_out' = <<>>
               /\ pc' = "failed"
          ELSE /\ f_first' = first.value
               /\ f_out' = out.value
               /\ pc' = "done"
    /\ UNCHANGED <<mode, combineVars, f_data, scoreVars, runVars, fetches>>

\* get_panchayat_data(date, district, block) on the list
ApplyPanchayatFilter ==
    /\ mode \in {"filter", "outlier"}
    /\ pc = "build"
    /\ f_kind' = "panchayat"
    /\ LET first == Call("panchayat_first_pass", <<f_data, FilterDistrict, FilterBlock>>)
           out == Call("filter_panchayat_data", <<f_data, FilterDistrict, FilterBlock>>)
       IN IF out.raised
          THEN /\ f_first' = <<>>
               /\ f_out' = <<>>
               /\ pc' = "failed"
          ELSE /\ f_first' = first.value
               /\ f_out' = out.value
               /\ pc' = "done"
    /\ UNCHANGED <<mode, combineVars, f_data, scoreVars, runVars, fetches>>

NextFilter == AddUnit \/ ApplyBlockFilter \/ ApplyPanchayatFilter

SpecFilter == InitFilter /\ [][NextFilter]_vars

-----------------------------------------------------------------------------
(* The scoring of one merged unit *)

\* the fields a merged unit may carry: the components and one that is none
ScoreFieldNames == {ComponentFields[i] : i \in 1..Len(ComponentFields)} \cup {"ratio"}

\* the integer 1 followed by 400 zeros
BeyondFloatRange == JInt(1, Call("BigTimesTenTo", <<<<1>>, 400>>))

\* the values a field may have: null, text, numbers as text, numbers, the
\* integer 45, an integer beyond the range of a float
ScoreValues ==
    { JNull, JStr(<<"x">>), JStr(<<"\t", "7">>), JStr(<<"1", ".", "5">>),
      JStr(<<"n", "a", "n">>), JStr(<<"-", "I", "n", "f">>),
      JNum(2675), JNum(15234), JInt(1, <<45>>), JNum(69996), BeyondFloatRange }

InitScore ==
    /\ mode = "score"
    /\ pc = "build"
    /\ ep = 0
    /\ results_data = <<>>
    /\ last = NoFetch
    /\ shadow = <<>>
    /\ merged = <<>>
    /\ combined = <<>>
    /\ f_kind = "none"
    /\ f_data = <<>>
    /\ f_first = <<>>
    /\ f_out = <<>>
    /\ s_item = [group_name |-> NameA]
    /\ s_scored = <<>>
    /\ NoRun

\* the merge gives the unit one more field
SetField ==
    /\ mode = "score"
    /\ pc = "build"
    /\ Cardinality(DOMAIN s_item) <= MaxScoreFields
    /\ \E f \in ScoreFieldNames \ DOMAIN s_item, val \in ScoreValues :
         s_item' = SetKey(s_item, f, val)
    /\ UNCHANGED <<mode, pc, combineVars, filterVars, s_scored, runVars, fetches>>

\* the body of `for item in global_results`
ScoreItem ==
    /\ mode = "score"
    /\ pc = "build"
    /\ s_scored' = Call("score_item", <<s_item>>)
    /\ pc' = "done"
    /\ UNCHANGED <<mode, combineVars, filterVars, s_item, runVars, fetches>>

NextScore == SetField \/ ScoreItem

SpecScore == InitScore /\ [][NextScore]_vars

-----------------------------------------------------------------------------
(* The filters on longer lists, where the outlier pass is active *)

\* the scores of the units, in thousandths: 6.18 is 60% of 10.3
OutlierScores == {80000, 10300, 6180, 0}

\* the spec scenario: five units scoring 80, 78, 76, 74 and 10
ScenarioFive ==
    << MakeUnit(JStr(<<"u", "e">>), <<>>, 80000),
       MakeUnit(JStr(<<"u", "f">>), <<>>, 78000),
       MakeUnit(JStr(<<"u", "g">>), <<>>, 76000),
       MakeUnit(JStr(<<"u", "h">>), <<>>, 74000),
       MakeUnit(JStr(<<"u", "i">>), <<>>, 10000) >>

OutlierLetters == <<"e", "f", "g", "h", "i", "j", "k", "l", "m", "n", "o", "p">>

\* the group_name of the unit added to a list of this length
OutlierName(data) == JStr(<<"u", OutlierLetters[Len(data) + 1]>>)

\* a row that repeats the district's name and has no workers and no marks
EchoUnit == MakeUnit(JStr(<<"r", "\t", "A">>), [registered_worker |-> JNum(0)], 0)

HasEcho(data) == \E i \in 1..Len(data) : data[i] = EchoUnit

InitOutlier ==
    /\ mode = "outlier"
    /\ pc = "build"
    /\ ep = 0
    /\ results_data = <<>>
    /\ last = NoFetch
    /\ shadow = <<>>
    /\ merged = <<>>
    /\ combined = <<>>
    /\ f_kind = "none"
    /\ f_data \in {<<>>, ScenarioFive}
    /\ f_first = <<>>
    /\ f_out = <<>>
    /\ s_item = <<>>
    /\ s_scored = <<>>
    /\ NoRun

\* the list combine_data will return has one more unit: names stay
\* distinct and the list stays sorted by score, descending
AddScored ==
    /\ mode = "outlier"
    /\ pc = "build"
    /\ Len(f_data) < MaxOutlierUnits
    /\ ~HasEcho(f_data)
    /\ \E marks \in OutlierScores :
         /\ IF f_data = <<>> THEN TRUE ELSE ~NumLess(SortKey(f_data[Len(f_data)]), JNum(marks))
         /\ f_data' = Append(f_data, MakeUnit(OutlierName(f_data), <<>>, marks))
    /\ UNCHANGED <<mode, pc, combineVars, f_kind, f_first, f_out, scoreVars, runVars, fetches>>

\* the list ends with the row that repeats the district's name
AddEcho ==
    /\ mode = "outlier"
    /\ pc = "build"
    /\ Len(f_data) < MaxOutlierUnits
    /\ ~HasEcho(f_data)
    /\ f_data' = Append(f_data, EchoUnit)
    /\ UNCHANGED <<mode, pc, combineVars, f_kind, f_first, f_out, scoreVars, runVars, fetches>>

NextOutlier == AddScored \/ AddEcho \/ ApplyBlockFilter \/ ApplyPanchayatFilter

SpecOutlier == InitOutlier /\ [][NextOutlier]_vars

-----------------------------------------------------------------------------
(* A run of main: get_district_data, then create_performance_summary *)

InitRun ==
    /\ mode = "run"
    /\ pc = "fetch"
    /\ ep = 1
    /\ results_data = <<>>
    /\ last = NoFetch
    /\ shadow = <<>>
    /\ merged = <<>>
    /\ combined = <<>>
    /\ f_kind = "none"
    /\ f_data = <<>>
    /\ f_first = <<>>
    /\ f_out = <<>>
    /\ s_item = <<>>
    /\ s_scored = <<>>
    /\ scope = "state"
    /\ district_data = <<>>
    /\ block_data = <<>>
    /\ bi = 0
    /\ result = NoSummary
    /\ fetches = 0

\* an exception leaves create_performance_summary: main logs it, no summary
Abort ==
    /\ pc' = "failed"
    /\ result' = NoSummary
    /\ UNCHANGED <<ep, results_data, shadow, scope, bi>>

\* A plausible slip: the next call fetches the state scope again.
StartScope_rewinds(next_scope) ==
    /\ scope' = "state"
    /\ ep' = 1
    /\ results_data' = <<>>
    /\ shadow' = <<>>
    /\ pc' = "fetch"

\* the next combine_data call starts
StartScope(next_scope) ==
    /\ scope' = next_scope
    /\ ep' = 1
    /\ results_data' = <<>>
    /\ shadow' = <<>>
    /\ pc' = "fetch"

\* A plausible slip: the state list goes through the filter of the blocks.
get_district_data_filtered(data) ==
    IF Call("filter_block_data", <<data, SelectedDistrict>>).raised THEN <<>>
    ELSE Call("filter_block_data", <<data, SelectedDistrict>>).value

\* get_district_data after its combine_data call: the list as it is
get_district_data(data) == data

\* `if selected_district:` found in the list: its section, then get_block_data
SectionBuilt(base, section) ==
    IF section.raised
    THEN Abort
    ELSE /\ result' = SetKey(base, "selectedDistrict", section.value)
         /\ StartScope("block")
         /\ UNCHANGED bi

\* the result dict with its metadata and the two lists; then the section of
\* the selected district, or the return
BaseBuilt(data, state_average, base) ==
    IF Truthy(SelectedDistrict) /\ Call("find_item_by_name", <<data, SelectedDistrict>>) # 0
    THEN SectionBuilt(base, Call("selected_district_section", <<data, SelectedDistrict, state_average>>))
    ELSE /\ result' = base
         /\ pc' = "done"
         /\ UNCHANGED <<ep, results_data, shadow, scope, bi>>

\* state_average = calculate_state_average(district_data)
AverageKnown(data, state_average) ==
    IF state_average.raised
    THEN Abort
    ELSE BaseBuilt(data, state_average.value,
                   summary_base(data, state_average.value, RunDate))

\* create_performance_summary(district_data, selected_district, date) starts
DistrictsGot(data) ==
    /\ district_data' = data
    /\ AverageKnown(data, Call("calculate_state_average", <<data>>))

\* get_district_data returns what combine_data returned
DistrictsCombined(data) ==
    /\ combined' = data
    /\ DistrictsGot(get_district_data(data))

\* combine_data returns to get_district_data, or raises: main logs it
StateScored(data) ==
    IF data.raised
    THEN /\ combined' = <<>>
         /\ district_data' = <<>>
         /\ Abort
    ELSE DistrictsCombined(data.value)

\* get_district_data returns; create_performance_summary runs up to the
\* first fetch of get_block_data, or to its return
CombineState ==
    /\ mode = "run"
    /\ pc = "merge"
    /\ scope = "state"
    /\ merged' = Call("MergeResults", <<results_data>>)
    /\ StateScored(Call("combine_tail", <<results_data>>))
    /\ UNCHANGED <<mode, last, filterVars, scoreVars, block_data, fetches>>

\* result["selectedDistrict"]["blockDetails"] = [], then the first pass of
\* the block loop, up to its get_panchayat_data call
FirstBlockDetail(detail) ==
    IF detail.raised
    THEN Abort
    ELSE /\ result' = SetKey(result, "selectedDistrict",
                             SetKey(result["selectedDistrict"], "blockDetails", <<>>))
         /\ StartScope("panchayat")
         /\ bi' = 1

\* `for block_item in block_data:` starts, or is not entered: blockDetails
\* stays the empty list it was made before the loop
BlocksKept(blocks, first) ==
    /\ block_data' = blocks
    /\ f_first' = first
    /\ f_out' = blocks
    /\ IF blocks = <<>>
       THEN /\ result' = SetKey(result, "selectedDistrict",
                                SetKey(result["selectedDistrict"], "blockDetails", <<>>))
            /\ pc' = "done"
            /\ UNCHANGED <<ep, results_data, shadow, scope, bi>>
       ELSE FirstBlockDetail(Call("block_detail", <<blocks[1], result["metadata"]["stateAverage"]>>))

\* get_block_data returns filter_block_data(data, district), or raises with it
BlocksFiltered(data, filtered) ==
    IF filtered.raised
    THEN /\ block_data' = <<>>
         /\ f_first' = <<>>
         /\ f_out' = <<>>
         /\ Abort
    ELSE BlocksKept(filtered.value, Call("block_first_pass", <<data, SelectedDistrict>>).value)

\* get_block_data after its combine_data call
BlocksCombined(data) ==
    /\ combined' = data
    /\ f_kind' = "block"
    /\ f_data' = data
    /\ BlocksFiltered(data, Call("filter_block_data", <<data, SelectedDistrict>>))

\* combine_data returns to get_block_data, or raises
BlocksScored(data) ==
    IF data.raised
    THEN /\ combined' = <<>>
         /\ f_kind' = "block"
         /\ f_data' = <<>>
         /\ f_first' = <<>>
         /\ f_out' = <<>>
         /\ block_data' = <<>>
         /\ Abort
    ELSE BlocksCombined(data.value)

\* get_block_data returns; the block loop runs up to the first fetch of
\* get_panchayat_data, or is not entered
CombineBlock ==
    /\ mode = "run"
    /\ pc = "merge"
    /\ scope = "block"
    /\ merged' = Call("MergeResults", <<results_data>>)
    /\ BlocksScored(Call("combine_tail", <<results_data>>))
    /\ UNCHANGED <<mode, last, scoreVars, district_data, fetches>>

\* result["selectedDistrict"]["blockDetails"] is now `details`
WithDetails(details) ==
    SetKey(result, "selectedDistrict",
           SetKey(result["selectedDistrict"], "blockDetails", details))

\* the next pass of the block loop, up to its get_panchayat_data call
NextBlockDetail(details, detail) ==
    IF detail.raised
    THEN Abort
    ELSE /\ result' = WithDetails(details)
         /\ StartScope("panchayat")
         /\ bi' = bi + 1

\* blockDetails.append(block_detail); then the next block, or the sort
DetailAppended(details) ==
    IF bi < Len(block_data)
    THEN NextBlockDetail(details,
             Call("block_detail", <<block_data[bi + 1], result["metadata"]["stateAverage"]>>))
    ELSE /\ result' = WithDetails(sort_block_details(details))
         /\ pc' = "done"
         /\ UNCHANGED <<ep, results_data, shadow, scope, bi>>

\* `if panchayat_data:` the block's detail gets its panchayats
PanchayatsKept(panchayat_data, first, detail) ==
    /\ f_first' = first
    /\ f_out' = panchayat_data
    /\ DetailAppended(Append(result["selectedDistrict"]["blockDetails"],
                             with_panchayats(detail.value, panchayat_data)))

\* get_panchayat_data returns filter_panchayat_data(data, district, block),
\* or raises with it
PanchayatsFiltered(data, block_item, filtered) ==
    IF filtered.raised
    THEN /\ f_first' = <<>>
         /\ f_out' = <<>>
         /\ Abort
    ELSE PanchayatsKept(filtered.value,
             Call("panchayat_first_pass", <<data, SelectedDistrict,
                                  Get(block_item, "group_name")>>).value,
             Call("block_detail", <<block_item, result["metadata"]["stateAverage"]>>))

\* get_panchayat_data after its combine_data call
PanchayatsCombined(data, block_item) ==
    /\ combined' = data
    /\ f_kind' = "panchayat"
    /\ f_data' = data
    /\ PanchayatsFiltered(data, block_item,
           Call("filter_panchayat_data", <<data, SelectedDistrict, Get(block_item, "group_name")>>))

\* combine_data returns to get_panchayat_data, or raises
PanchayatsScored(data, block_item) ==
    IF data.raised
    THEN /\ combined' = <<>>
         /\ f_kind' = "panchayat"
         /\ f_data' = <<>>
         /\ f_first' = <<>>
         /\ f_out' = <<>>
         /\ Abort
    ELSE PanchayatsCombined(data.value, block_item)

\* get_panchayat_data returns: the block's detail is appended, and the loop
\* goes on to the next block's first fetch, or ends with the sort
CombinePanchayat ==
    /\ mode = "run"
    /\ pc = "merge"
    /\ scope = "panchayat"
    /\ merged' = Call("MergeResults", <<results_data>>)
    /\ PanchayatsScored(Call("combine_tail", <<results_data>>), block_data[bi])
    /\ UNCHANGED <<mode, last, scoreVars, district_data, block_data, fetches>>

Next == FetchData \/ CombineState \/ CombineBlock \/ CombinePanchayat

Spec == InitRun /\ [][Next]_vars

-----------------------------------------------------------------------------
(* combine_data as the loop of lines 114-117 runs it on given answers, and
   a variant whose 15 fetches are issued together: the answers come back in
   some arrival order, and once all have come back they are merged in
   API_ENDPOINTS order *)

\* A plausible slip: the loop ends at the first fetch that failed.
fetch_all_until_failure(responses) ==
    LET failed == {e \in 1..Len(responses) : responses[e].outcome \in FailOutcomes}
        n == IF failed = {} THEN Len(responses)
             ELSE (CHOOSE e \in failed : \A d \in failed : e <= d) - 1
    IN Call("Looped", <<ListOf([e \in 1..n |-> Call("fetch_data", <<responses[e]>>)])>>)

\* `for endpoint in API_ENDPOINTS: results_data.append(fetch_data(...))`
\* when endpoint number e is answered with responses[e]
fetch_all(responses) ==
    Call("Looped", <<ListOf([e \in 1..Len(responses) |-> Call("fetch_data", <<responses[e]>>)])>>)

combine_fetched(fetched) ==
    IF fetched.raised THEN Raised ELSE Call("combine_tail", <<fetched.value>>)

\* combine_data(params), sequential as written
combine_data(responses) == combine_fetched(fetch_all(responses))

\* the fetches of the last MaxAhead + 1 endpoints complete in any order in
\* which none is more than MaxAhead - 1 places ahead of the lowest endpoint
\* still under way; the fetches before them complete in endpoint order
MaxAhead == 2

\* how many records the endpoints of one such call return between them
MaxParallelRecords == 2

\* the endpoints whose fetch has not completed
PendingEndpoints(arrivals) ==
    (1..NumEndpoints) \ {arrivals[i].endpoint : i \in 1..Len(arrivals)}

LowestPending(arrivals) ==
    CHOOSE e \in PendingEndpoints(arrivals) : \A d \in PendingEndpoints(arrivals) : e <= d

\* A plausible slip: the results are merged in the order they arrived.
in_arrival_order(arrivals) == ListOf([i \in 1..Len(arrivals) |-> arrivals[i].data])

\* the results put in API_ENDPOINTS order
in_endpoint_order(arrivals) ==
    ListOf([e \in 1..Len(arrivals) |->
        arrivals[CHOOSE i \in 1..Len(arrivals) : arrivals[i].endpoint = e].data])

ParallelRoom ==
    IF MaxParallelRecords > RecordCount(in_arrival_order(shadow))
    THEN MaxParallelRecords - RecordCount(in_arrival_order(shadow))
    ELSE 0

\* what endpoint number e may answer: the first endpoint and those that
\* return records may fail as well
ParallelResponses(e) ==
    IF e \in DataEndpoints \cup {1}
    THEN Responses(e, RecordPool, ParallelRoom, FALSE)
    ELSE {[outcome |-> "ok", body |-> EmptyResult]}

InitParallel ==
    /\ mode = "parallel"
    /\ pc = "fetch"
    /\ ep = 0
    /\ results_data = <<>>
    /\ last = NoFetch
    /\ shadow = <<>>
    /\ merged = <<>>
    /\ combined = <<>>
    /\ f_kind = "none"
    /\ f_data = <<>>
    /\ f_first = <<>>
    /\ f_out = <<>>
    /\ s_item = <<>>
    /\ s_scored = <<>>
    /\ NoRun

\* one fetch_data call returns; shadow keeps the arrivals
FetchArrives ==
    /\ mode = "parallel"
    /\ pc = "fetch"
    /\ \E e \in PendingEndpoints(shadow) :
         /\ \/ e = LowestPending(shadow)
            \/ /\ LowestPending(shadow) >= NumEndpoints - MaxAhead
               /\ e < LowestPending(shadow) + MaxAhead
         /\ \E resp \in ParallelResponses(e) :
              LET r == Call("fetch_data", <<resp>>)
              IN /\ last' = [endpoint |-> e, outcome |-> resp.outcome]
                 /\ IF r.raised
                    THEN /\ pc' = "failed"
                         /\ UNCHANGED <<ep, shadow>>
                    ELSE /\ shadow' = Append(shadow,
                                [endpoint |-> e, response |-> resp, data |-> r.value])
                         /\ ep' = ep + 1
                         /\ pc' = IF ep + 1 = NumEndpoints THEN "merge" ELSE "fetch"
    /\ fetches' = fetches + 1
    /\ UNCHANGED <<mode, results_data, merged, combined, filterVars, scoreVars, runVars>>

\* all 15 have completed: the results are put in API_ENDPOINTS order, then
\* merge, score, grade, sort, return
MergeCompleted ==
    /\ mode = "parallel"
    /\ pc = "merge"
    /\ results_data' = in_endpoint_order(shadow)
    /\ merged' = Call("MergeResults", <<in_endpoint_order(shadow)>>)
    /\ Returned(Call("combine_tail", <<in_endpoint_order(shadow)>>))
    /\ UNCHANGED <<mode, ep, last, shadow, filterVars, scoreVars, runVars, fetches>>

NextParallel == FetchArrives \/ MergeCompleted

SpecParallel == InitParallel /\ [][NextParallel]_vars

-----------------------------------------------------------------------------
(* extract_performance_data on ranked lists of every length *)

MaxRankedUnits == 12

RankedLetters ==
    <<"a", "b", "c", "d", "e", "f", "g", "h", "i", "j", "k", "l", "m", "n", "o", "p">>

\* the group_name of the unit added to a list of this length
RankedName(data) == JStr(<<"r", RankedLetters[Len(data) + 1]>>)

RankedScores == {60000, 40000}

InitExtract ==
    /\ mode = "extract"
    /\ pc = "build"
    /\ ep = 0
    /\ results_data = <<>>
    /\ last = NoFetch
    /\ shadow = <<>>
    /\ merged = <<>>
    /\ combined = <<>>
    /\ f_kind = "none"
    /\ f_data = <<>>
    /\ f_first = <<>>
    /\ f_out = <<>>
    /\ s_item = <<>>
    /\ s_scored = <<>>
    /\ NoRun

\* the ranked list has one more unit, below or level with the last one
AddRanked ==
    /\ mode = "extract"
    /\ pc = "build"
    /\ Len(f_data) < MaxRankedUnits
    /\ \E marks \in RankedScores :
         /\ IF f_data = <<>> THEN TRUE ELSE ~NumLess(SortKey(f_data[Len(f_data)]), JNum(marks))
         /\ f_data' = Append(f_data, MakeUnit(RankedName(f_data), <<>>, marks))
    /\ UNCHANGED <<mode, pc, combineVars, f_kind, f_first, f_out, scoreVars, runVars, fetches>>

\* extract_performance_data(district_data, level="District")
ExtractDistricts ==
    /\ mode = "extract"
    /\ pc = "build"
    /\ f_kind' = "district"
    /\ result' = Call("extract_performance_data", <<f_data, 5, 5, FALSE>>)
    /\ pc' = "done"
    /\ UNCHANGED <<mode, combineVars, f_data, f_first, f_out, scoreVars,
                   scope, district_data, block_data, bi, fetches>>

\* extract_performance_data(panchayat_data, level="Panchayat", is_panchayat=True)
ExtractPanchayats ==
    /\ mode = "extract"
    /\ pc = "build"
    /\ f_kind' = "panchayat"
    /\ result' = Call("extract_performance_data", <<f_data, 5, 5, TRUE>>)
    /\ pc' = "done"
    /\ UNCHANGED <<mode, combineVars, f_data, f_first, f_out, scoreVars,
                   scope, district_data, block_data, bi, fetches>>

NextExtract == AddRanked \/ ExtractDistricts \/ ExtractPanchayats

SpecExtract == InitExtract /\ [][NextExtract]_vars

-----------------------------------------------------------------------------
(* Claims *)

\* the records of the fetched data objects, in the order the merge visits them
RECURSIVE FlatRecords(_)
FlatRecords(data_objs) ==
    IF data_objs = <<>> THEN <<>>
    ELSE (IF HasResultList(Head(data_objs)) THEN Head(data_objs)["results"].v ELSE <<>>)
         \o FlatRecords(Tail(data_objs))

\* the positions, in that order, of the records that carry a group_name
NamedPositions(flat) == {j \in 1..Len(flat) : "group_name" \in DOMAIN flat[j]}

\* C2: fetch_data never propagates an error: after a fetch whose transport
\* raised or whose status was a failure, the value appended is exactly
\* {"results": []}, nothing has been raised, and the loop of combine_data has
\* moved on to the next endpoint.
C2_FetchNeverPropagates ==
    /\ pc # "failed"
    /\ last.outcome \in FailOutcomes =>
         /\ Len(results_data) = last.endpoint
         /\ results_data[last.endpoint] = [results |-> JList(<<>>)]
         /\ ep = last.endpoint + 1
         /\ IF last.endpoint < NumEndpoints THEN pc = "fetch" ELSE pc \in {"merge", "done"}

\* a fetch in the middle of the loop failed and the loop goes on
C2_Witness ==
    /\ last.outcome = "status"
    /\ last.endpoint = NumEndpoints - 1
    /\ pc = "fetch"
    /\ ep = NumEndpoints

\* C3: failure and an empty answer are indistinguishable: the list
\* combine_data returns is the list of the run in which every failed endpoint
\* answered with an empty results array instead.
C3_FailureLooksEmpty ==
    pc = "done" => Fine(combined) = combine_tail(shadow)

\* the last endpoint failed, and units were merged from the others
C3_Witness ==
    /\ pc = "done"
    /\ last.outcome \in FailOutcomes
    /\ combined # <<>>

\* C4: every group_name that occurs in a record yields exactly one merged
\* unit, and that unit has every field of every record of that name.
C4_MergeUnionsByName ==
    pc = "done" =>
        LET flat == FlatRecords(results_data) IN
        \A j \in NamedPositions(flat) :
            /\ Cardinality({i \in 1..Len(merged) :
                   merged[i]["group_name"] = flat[j]["group_name"]}) = 1
            /\ Cardinality({i \in 1..Len(combined) :
                   combined[i]["group_name"] = flat[j]["group_name"]}) = 1
            /\ \A i \in 1..Len(merged) :
                   merged[i]["group_name"] = flat[j]["group_name"]
                       => DOMAIN flat[j] \subseteq DOMAIN merged[i]
            /\ \A i \in 1..Len(combined) :
                   combined[i]["group_name"] = flat[j]["group_name"]
                       => DOMAIN flat[j] \subseteq DOMAIN combined[i]

\* the scenario of the specification: marks 5.0 and pd_marks 3.0 arrive in two
\* records of one unit, which ends with both, 8.0 overall and grade D
C4_Witness ==
    /\ pc = "done"
    /\ \E i \in 1..Len(combined) :
          /\ combined[i]["group_name"] = NameA
          /\ {"marks", "pd_marks"} \subseteq DOMAIN combined[i]
          /\ combined[i]["marks"] = JNum(5000)
          /\ combined[i]["pd_marks"] = JNum(3000)
          /\ combined[i]["overall_total_marks"] = JNum(8000)
          /\ combined[i]["grade"] = JStr(<<"D">>)

\* C5: last write wins: a field of a merged unit has the value of the last
\* record, in endpoint order and then in array order, that has the unit's
\* group_name and carries the field.
C5_LastWriteWins ==
    pc = "done" =>
        LET flat == FlatRecords(results_data) IN
        \A i \in 1..Len(merged) : \A f \in DOMAIN merged[i] :
            LET writers == {j \in NamedPositions(flat) :
                               /\ flat[j]["group_name"] = merged[i]["group_name"]
                               /\ f \in DOMAIN flat[j]}
            IN /\ writers # {}
               /\ \E j \in writers :
                     /\ \A jj \in writers : jj <= j
                     /\ merged[i][f] = flat[j][f]

\* two records of one unit carry the same field with different values
C5_Witness ==
    /\ pc = "done"
    /\ LET flat == FlatRecords(results_data) IN
       \E j1, j2 \in NamedPositions(flat) :
          /\ j1 < j2
          /\ flat[j1]["group_name"] = flat[j2]["group_name"]
          /\ "marks" \in DOMAIN flat[j1] /\ "marks" \in DOMAIN flat[j2]
          /\ flat[j1]["marks"] # flat[j2]["marks"]

\* C6: a record without group_name is skipped: every merged unit, and every
\* field value of it, comes from a record that carries the unit's group_name,
\* and the named records before and after the skipped one are all merged.
C6_NamelessRecordSkipped ==
    pc = "done" =>
        LET flat == FlatRecords(results_data)
            named == NamedPositions(flat)
        IN /\ \A i \in 1..Len(merged) :
                 /\ "group_name" \in DOMAIN merged[i]
                 /\ \A f \in DOMAIN merged[i] :
                       \E j \in named :
                          /\ flat[j]["group_name"] = merged[i]["group_name"]
                          /\ f \in DOMAIN flat[j]
                          /\ flat[j][f] = merged[i][f]
           /\ \A j \in named :
                 \E i \in 1..Len(merged) : merged[i]["group_name"] = flat[j]["group_name"]
           /\ Len(merged) = Cardinality({flat[j]["group_name"] : j \in named})

\* a nameless record arrived between two named ones
C6_Witness ==
    /\ pc = "done"
    /\ LET flat == FlatRecords(results_data) IN
       /\ Len(flat) = 3
       /\ "group_name" \in DOMAIN flat[1]
       /\ "group_name" \notin DOMAIN flat[2]
       /\ "group_name" \in DOMAIN flat[3]
       /\ flat[1]["group_name"] # flat[3]["group_name"]
    /\ Len(merged) = 2

\* a capital letter of the alphabet with its small letter
ClaimCases ==
    {
      <<"A", "a">>, <<"B", "b">>, <<"C", "c">>, <<"D", "d">>, <<"E", "e">>,
      <<"F", "f">>, <<"G", "g">>, <<"H", "h">>, <<"I", "i">>, <<"J", "j">>,
      <<"K", "k">>, <<"L", "l">>, <<"M", "m">>, <<"N", "n">>, <<"O", "o">>,
      <<"P", "p">>, <<"Q", "q">>, <<"R", "r">>, <<"S", "s">>, <<"T", "t">>,
      <<"U", "u">>, <<"V", "v">>, <<"W", "w">>, <<"X", "x">>, <<"Y", "y">>,
      <<"Z", "z">>, <<"À", "à">>, <<"Á", "á">>, <<"Â", "â">>, <<"Ã", "ã">>,
      <<"Ä", "ä">>, <<"Å", "å">>, <<"Æ", "æ">>, <<"Ç", "ç">>, <<"È", "è">>,
      <<"É", "é">>, <<"Ê", "ê">>, <<"Ë", "ë">>, <<"Ì", "ì">>, <<"Í", "í">>,
      <<"Î", "î">>, <<"Ï", "ï">>, <<"Ð", "ð">>, <<"Ñ", "ñ">>, <<"Ò", "ò">>,
      <<"Ó", "ó">>, <<"Ô", "ô">>, <<"Õ", "õ">>, <<"Ö", "ö">>, <<"Ø", "ø">>,
      <<"Ù", "ù">>, <<"Ú", "ú">>, <<"Û", "û">>, <<"Ü", "ü">>, <<"Ý", "ý">>,
      <<"Þ", "þ">> }

\* the whitespace of the alphabet
ClaimBlanks ==
    {
      "\t", "\n", "", "\f", "\r", "", "", "", "", " ", "", " ", " " }

\* the normalisation the claim speaks of: lower case, all whitespace removed
ClaimLower(c) ==
    IF \E pair \in ClaimCases : pair[1] = c
    THEN (CHOOSE pair \in ClaimCases : pair[1] = c)[2]
    ELSE c

RECURSIVE ClaimNorm(_)
ClaimNorm(cs) ==
    IF cs = <<>> THEN <<>>
    ELSE (IF Head(cs) \in ClaimBlanks THEN <<>> ELSE <<ClaimLower(Head(cs))>>)
         \o ClaimNorm(Tail(cs))

ClaimCollides(unit, parent) == ClaimNorm(unit["group_name"].s) = ClaimNorm(parent.s)

\* the number 0, as an integer and as a float
ClaimZeros == {JInt(1, <<>>), JNum(0)}

ClaimNoWorkers(unit) ==
    total_workers(unit) = JNull \/ total_workers(unit) \in ClaimZeros

\* get_block_data or get_panchayat_data has returned its list
ClaimFiltered == mode = "filter" /\ pc = "done"

\* C10: the name-collision pass drops a unit exactly when its normalised
\* name equals the normalised district name (at panchayat scope: or the
\* normalised block name) and its worker count is null or zero; a colliding
\* unit with workers is kept.  The six-block scenario loses only the echo.
C10_NameCollisionPass ==
    ClaimFiltered =>
        LET dropped(unit) ==
                IF f_kind = "block"
                THEN ClaimCollides(unit, FilterDistrict) /\ ClaimNoWorkers(unit)
                ELSE /\ ClaimCollides(unit, FilterDistrict) \/ ClaimCollides(unit, FilterBlock)
                     /\ ClaimNoWorkers(unit)
        IN /\ f_first = SelectSeq(f_data, LAMBDA unit : ~dropped(unit))
           /\ (f_kind = "block" /\ f_data = ScenarioSix) => f_out = SubSeq(ScenarioSix, 1, 5)

\* at panchayat scope an echo of the block without workers, written with a
\* line feed and in another case, is dropped, while a unit named like the
\* district, with a tab in its name, that has workers is kept
C10_Witness ==
    /\ ClaimFiltered
    /\ f_kind = "panchayat"
    /\ \E i \in 1..Len(f_data) :
          /\ f_data[i]["group_name"] = JStr(<<"\n", "k", "D">>)
          /\ ClaimCollides(f_data[i], FilterBlock)
          /\ ClaimNoWorkers(f_data[i])
          /\ \A j \in 1..Len(f_first) : f_first[j] # f_data[i]
    /\ \E i \in 1..Len(f_data) :
          /\ f_data[i]["group_name"] = JStr(<<"r", "\t", "A">>)
          /\ ClaimCollides(f_data[i], FilterDistrict)
          /\ ~ClaimNoWorkers(f_data[i])
          /\ \E j \in 1..Len(f_first) : f_first[j] = f_data[i]

\* the component fields the claim names
ClaimComponents ==
    { "marks", "pd_marks", "total_marks", "disabled_marks", "total_transaction_marks",
      "marks_prev", "marks_curr", "total_visit_marks", "pending_marks",
      "recovery_marks", "total_nmms_marks", "phase_0_assets_geotag_marks",
      "phase_1_before_geotag_marks", "phase_2_during_geotag_marks",
      "phase_3_after_geotag_marks", "ratio_marks", "women_mate_marks",
      "timely_payment_marks", "zero_muster_marks", "total_fra_marks" }

ClaimDigits == <<"0", "1", "2", "3", "4", "5", "6", "7", "8", "9">>

ClaimDigit(c) == \E d \in 1..10 : ClaimDigits[d] = c

\* the text without the whitespace around it
RECURSIVE ClaimTrimmed(_)
ClaimTrimmed(cs) ==
    IF cs = <<>> THEN <<>>
    ELSE IF Head(cs) \in ClaimBlanks THEN ClaimTrimmed(Tail(cs))
    ELSE IF cs[Len(cs)] \in ClaimBlanks THEN ClaimTrimmed(SubSeq(cs, 1, Len(cs) - 1))
    ELSE cs

\* the text is a decimal numeral: digits, with up to three more after a point
ClaimIsNumeral(cs) ==
    /\ cs # <<>>
    /\ ClaimDigit(cs[1])
    /\ \A i \in 1..Len(cs) : ClaimDigit(cs[i]) \/ cs[i] = "."
    /\ Cardinality({i \in 1..Len(cs) : cs[i] = "."}) <= 1
    /\ \A i \in 1..Len(cs) : cs[i] = "." => (i < Len(cs) /\ Len(cs) - i <= 3)

\* the thousandths a decimal numeral denotes
RECURSIVE ClaimThousandths(_, _)
ClaimThousandths(cs, unit) ==
    IF cs = <<>> THEN 0
    ELSE IF cs[Len(cs)] = "." THEN ClaimThousandths(SubSeq(cs, 1, Len(cs) - 1), 1000)
    ELSE unit * ((CHOOSE d \in 1..10 : ClaimDigits[d] = cs[Len(cs)]) - 1)
             + ClaimThousandths(SubSeq(cs, 1, Len(cs) - 1), 10 * unit)

ClaimNumeralValue(cs) ==
    LET places == IF \E i \in 1..Len(cs) : cs[i] = "."
                  THEN Len(cs) - (CHOOSE i \in 1..Len(cs) : cs[i] = ".")
                  ELSE 0
    IN IF places = 0 THEN ClaimThousandths(cs, 1000)
       ELSE ClaimThousandths(cs, 10 ^ (3 - places))

\* what a component counts for, in thousandths: its number, the number a
\* numeric text denotes, and 0 when it is missing, null or not numeric
ClaimComponentValue(item, f) ==
    IF f \notin DOMAIN item THEN 0
    ELSE IF item[f].k = "num" THEN item[f].n
    ELSE IF item[f].k = "int" /\ Len(item[f].m) = 1 THEN 1000 * item[f].sg * item[f].m[1]
    ELSE IF item[f].k = "str" /\ ClaimIsNumeral(ClaimTrimmed(item[f].s))
    THEN ClaimNumeralValue(ClaimTrimmed(item[f].s))
    ELSE 0

RECURSIVE ClaimSum(_, _)
ClaimSum(item, fields) ==
    IF fields = {} THEN 0
    ELSE LET f == CHOOSE x \in fields : TRUE
         IN ClaimComponentValue(item, f) + ClaimSum(item, fields \ {f})

\* the body of the scoring loop has run for the unit, or an exception left it
ClaimScoringEnded == mode = "score" /\ pc = "done"

\* C7: scoring never raises and stores in overall_total_marks the sum of the
\* named components rounded to 2 decimals, a missing, null or non-numeric
\* component counting as 0.
C7_ScoreIsRoundedSum ==
    ClaimScoringEnded =>
        /\ ~s_scored.raised
        /\ LET total == ClaimSum(s_item, ClaimComponents)
               stored == s_scored.value["overall_total_marks"]
           IN /\ stored.k = "num"
              /\ stored.n % 10 = 0
              /\ stored.n - total <= 5
              /\ total - stored.n <= 5

\* a unit whose marks are a JSON integer beyond the range of a float, next to
\* a component of 15.234: float() raises OverflowError, which safe_float does
\* not catch, and the unit is not scored
C7_Witness ==
    /\ ClaimScoringEnded
    /\ \E f \in ClaimComponents \cap DOMAIN s_item : s_item[f] = BeyondFloatRange
    /\ \E f \in ClaimComponents \cap DOMAIN s_item : s_item[f] = JNum(15234)
    /\ s_scored.raised

GradeRank(g) == CASE g = "A" -> 4 [] g = "B" -> 3 [] g = "C" -> 2 [] g = "D" -> 1

ReferenceScores == {0, 44990, 45000, 59990, 60000, 69990, 70000, 103000}

\* the score is this many thousandths or more
ClaimAtLeast(score, t) ==
    \/ score.k = "num" /\ score.n >= t
    \/ score.k = "inf" /\ score.sg = 1

\* C8: a scored unit gets exactly one grade, fixed by its
\* overall_total_marks: A from 70, B from 60 and below 70, C from 45 and below
\* 60, D otherwise; and against any other score the code grades, the higher
\* score has no worse grade.
C8_GradeThresholds ==
    (ClaimScoringEnded /\ ~s_scored.raised) =>
        LET m == s_scored.value["overall_total_marks"]
            g == s_scored.value["grade"]
        IN /\ g \in {JStr(<<"A">>), JStr(<<"B">>), JStr(<<"C">>), JStr(<<"D">>)}
           /\ g = JStr(<<"A">>) <=> ClaimAtLeast(m, 70000)
           /\ g = JStr(<<"B">>) <=> (ClaimAtLeast(m, 60000) /\ ~ClaimAtLeast(m, 70000))
           /\ g = JStr(<<"C">>) <=> (ClaimAtLeast(m, 45000) /\ ~ClaimAtLeast(m, 60000))
           /\ g = JStr(<<"D">>) <=> ~ClaimAtLeast(m, 45000)
           /\ m.k = "num" =>
                 \A m2 \in ReferenceScores :
                    /\ m2 >= m.n => GradeRank(grade_of(JNum(m2))) >= GradeRank(g.s[1])
                    /\ m2 <= m.n => GradeRank(grade_of(JNum(m2))) <= GradeRank(g.s[1])

\* 15.234 + 45 = 60.23 overall is graded B
C8_Witness ==
    /\ ClaimScoringEnded
    /\ ~s_scored.raised
    /\ s_scored.value["overall_total_marks"] = JNum(60230)
    /\ s_scored.value["grade"] = JStr(<<"B">>)

\* the state-scope combine_data call has returned and `merged` is still its
\* merged list
StateListKnown ==
    /\ mode = "run"
    /\ \/ (scope = "state" /\ pc \in {"done", "failed"})
       \/ (scope = "block" /\ pc \in {"fetch", "merge"})

\* the state-scope step of a run has ended
RunEnded == mode = "run" /\ pc \in {"done", "failed"}

\* C1 as stated: when the state-scope step yields an empty district list the
\* aggregation aborts, and no summary (no metadata, no top5/bottom5) is
\* produced.
C1_EmptyStateAborts ==
    (RunEnded /\ district_data = <<>>) => (pc = "failed" /\ result = NoSummary)

\* C1 as amended: when the state-scope step yields an empty district list the
\* run does not abort: after the 15 state-scope fetches and no other, the
\* summary is returned with stateAverage 0, empty top5 and bottom5 and no
\* selectedDistrict section.
C1_EmptyStateSummarised ==
    (RunEnded /\ district_data = <<>>) =>
        /\ pc = "done"
        /\ result = [ metadata |-> [date |-> RunDate, maxMarks |-> 103, stateAverage |-> JNum(0)],
                      districts |-> [top5 |-> <<>>, bottom5 |-> <<>>] ]
        /\ scope = "state"
        /\ fetches = NumEndpoints

C1_Witness ==
    /\ RunEnded
    /\ district_data = <<>>
    /\ last.outcome = "raise"
    /\ result # NoSummary

ClaimScore(i) == district_data[i]["overall_total_marks"].n

ClaimMergePosition(i) ==
    CHOOSE k \in 1..Len(merged) : merged[k]["group_name"] = district_data[i]["group_name"]

ClaimDistinctScores ==
    \A i, j \in 1..Len(district_data) : i # j => ClaimScore(i) # ClaimScore(j)

\* C9: the ranked list is in descending order of overall_total_marks, units
\* of equal score in the order the merge first saw them; the rank reported
\* for the selected district is its 1-based position in the list; and when
\* the scores are distinct, the unit at position i has exactly i - 1 units
\* of strictly higher score.
C9_RankIsPosition ==
    StateListKnown =>
        LET n == Len(district_data) IN
        /\ n = Len(merged)
        /\ \A i, j \in 1..n : i < j => ClaimScore(i) >= ClaimScore(j)
        /\ \A i, j \in 1..n :
               (i < j /\ ClaimScore(i) = ClaimScore(j))
                   => ClaimMergePosition(i) < ClaimMergePosition(j)
        /\ "selectedDistrict" \in DOMAIN result =>
               /\ result["selectedDistrict"]["totalDistricts"] = n
               /\ result["selectedDistrict"]["rank"] \in 1..n
               /\ district_data[result["selectedDistrict"]["rank"]]["group_name"]
                      = SelectedDistrict
               /\ ClaimDistinctScores =>
                      result["selectedDistrict"]["rank"] =
                          1 + Cardinality({j \in 1..n :
                                  ClaimScore(j) > result["selectedDistrict"]["marks"].n})
        /\ ClaimDistinctScores =>
               \A i \in 1..n : i = 1 + Cardinality({j \in 1..n : ClaimScore(j) > ClaimScore(i)})

C9_Witness ==
    /\ StateListKnown
    /\ scope = "block"
    /\ Len(district_data) = 3
    /\ ClaimScore(2) = ClaimScore(3)
    /\ ClaimScore(1) > ClaimScore(2)
    /\ result["selectedDistrict"]["rank"] = 3

ClaimFirstScore(i) == f_first[i]["overall_total_marks"].n

\* the sum of the scores of f_first without the unit at position i
ClaimPeerSum(i) ==
    LET RECURSIVE upto(_)
        upto(k) == IF k = 0 THEN 0
                   ELSE (IF k = i THEN 0 ELSE ClaimFirstScore(k)) + upto(k - 1)
    IN upto(Len(f_first))

\* the score at position i is strictly below 60% of the mean of the others
ClaimBelowPeers(i) ==
    ClaimFirstScore(i) * (Len(f_first) - 1) * 10 < 6 * ClaimPeerSum(i)

\* the units of f_first from position i on that are not below their peers
RECURSIVE ClaimKept(_)
ClaimKept(i) ==
    IF i > Len(f_first) THEN <<>>
    ELSE (IF ClaimBelowPeers(i) THEN <<>> ELSE <<f_first[i]>>) \o ClaimKept(i + 1)

\* the statistical pass runs: 5 units at block scope, 10 at panchayat scope
ClaimPassActive ==
    /\ mode = "outlier"
    /\ pc = "done"
    /\ Len(f_first) >= (IF f_kind = "block" THEN 5 ELSE 10)

\* C11: when the statistical pass is active, the filter returns, in order,
\* exactly the units left by the name-collision pass whose score is not
\* strictly below 60% of the mean score of all the other units that pass
\* left, each unit being judged against that same list; of the units
\* scoring [80, 78, 76, 74, 10] exactly the last one is removed.
C11_OutlierBelowPeerMean ==
    ClaimPassActive =>
        /\ f_out = ClaimKept(1)
        /\ f_first = ScenarioFive =>
               /\ ClaimPeerSum(5) = 4 * 77000
               /\ f_out = SubSeq(f_first, 1, 4)

\* five blocks scoring [10.3, 10.3, 10.3, 10.3, 6.18]: the last one is at
\* 60% of the mean of its peers, not below it, and is removed all the same:
\* 10.3 * (1 - 40/100) is 6.180000000000001 in floats
C11_Witness ==
    /\ ClaimPassActive
    /\ f_kind = "block"
    /\ [i \in 1..Len(f_first) |-> ClaimFirstScore(i)] = <<10300, 10300, 10300, 10300, 6180>>
    /\ ClaimFirstScore(5) * 4 * 10 = 6 * ClaimPeerSum(5)
    /\ ~ClaimBelowPeers(5)
    /\ f_out = SubSeq(f_first, 1, 4)

\* the position in f_data of the unit returned at position k of f_out, 0 if none
ClaimInputPosition(k) ==
    IF \E i \in 1..Len(f_data) : f_data[i] = f_out[k]
    THEN CHOOSE i \in 1..Len(f_data) : f_data[i] = f_out[k]
    ELSE 0

\* C12: a filter returns no more units than it is given, every returned unit
\* is one of the given units (in the given order); and with fewer than 5
\* units (block scope) or fewer than 10 (panchayat scope) left by the
\* name-collision pass, it returns exactly what that pass left.
C12_FilterOnlyRemoves ==
    (mode = "outlier" /\ pc = "done") =>
        /\ Len(f_out) <= Len(f_data)
        /\ \A k \in 1..Len(f_out) : ClaimInputPosition(k) # 0
        /\ \A k, l \in 1..Len(f_out) :
               k < l => ClaimInputPosition(k) < ClaimInputPosition(l)
        /\ Len(f_first) < (IF f_kind = "block" THEN 5 ELSE 10) => f_out = f_first

\* nine panchayats are left of ten, one of them far below its peers, and all
\* nine are returned
C12_Witness ==
    /\ mode = "outlier"
    /\ pc = "done"
    /\ f_kind = "panchayat"
    /\ Len(f_data) = 10
    /\ Len(f_first) = 9
    /\ \E i \in 1..Len(f_first) : ClaimBelowPeers(i)
    /\ f_out = f_first

ClaimNames(units) == {units[i]["group_name"] : i \in 1..Len(units)}

ClaimScoreSum ==
    LET RECURSIVE upto(_)
        upto(k) == IF k = 0 THEN 0 ELSE ClaimScore(k) + upto(k - 1)
    IN upto(Len(district_data))

\* district i scores more than 40% below the mean of the other districts
ClaimDistrictBelowPeers(i) ==
    /\ Len(district_data) > 1
    /\ ClaimScore(i) * (Len(district_data) - 1) * 10 < 6 * (ClaimScoreSum - ClaimScore(i))

\* C13: no filter pass touches the state list. It holds every merged unit;
\* the state average is the mean over all of them (to the nearest hundredth);
\* bottom5 is the last five of them (all, if fewer), the lowest included; and
\* totalDistricts counts all of them - also when a district is far below its
\* peers or repeats the selected district's name with no workers.
C13_StateListUnfiltered ==
    (StateListKnown /\ result # NoSummary) =>
        LET n == Len(district_data)
            average == result["metadata"]["stateAverage"]
            bottom == result["districts"]["bottom5"]
            shown == IF n < 5 THEN n ELSE 5
        IN /\ n = Len(merged)
           /\ ClaimNames(district_data) = ClaimNames(merged)
           /\ average.k = "num"
           /\ average.n % 10 = 0
           /\ n > 0 => 2 * (average.n * n - ClaimScoreSum) \in (-10 * n)..(10 * n)
           /\ Len(bottom) = shown
           /\ \A k \in 1..shown :
                  /\ bottom[k]["name"] = district_data[n - shown + k]["group_name"]
                  /\ bottom[k]["marks"] = JNum(ClaimScore(n - shown + k))
           /\ "selectedDistrict" \in DOMAIN result =>
                  result["selectedDistrict"]["totalDistricts"] = Len(merged)

\* eight districts, the selected one far below its peers and with no workers:
\* it is ranked eighth of eight, shown in bottom5 and counted in the average
C13_Witness ==
    /\ StateListKnown
    /\ result # NoSummary
    /\ Len(district_data) = 8
    /\ district_data[8]["group_name"] = SelectedDistrict
    /\ ClaimDistrictBelowPeers(8)
    /\ NoWorkers(district_data[8])
    /\ "selectedDistrict" \in DOMAIN result
    /\ result["selectedDistrict"]["rank"] = 8
    /\ result["selectedDistrict"]["totalDistricts"] = 8
    /\ result["districts"]["bottom5"][5]["name"] = SelectedDistrict
    /\ result["metadata"]["stateAverage"] = JNum(65030)

\* get_panchayat_data has returned for a block, and the summary is under way
ClaimPanchayatsJudged == mode = "run" /\ f_kind = "panchayat" /\ result # NoSummary

\* the detail of the block whose panchayats were fetched last
ClaimJudgedDetail ==
    LET block_name == block_data[IF pc = "done" THEN bi ELSE bi - 1]["group_name"]
        details == result["selectedDistrict"]["blockDetails"]
    IN details[CHOOSE k \in 1..Len(details) : details[k]["name"] = block_name]

\* the list shows, in order, the units of `ranked` at the ranks from lo to hi
ClaimShowsRanks(list, ranked, lo, hi) ==
    /\ Len(list) = hi - lo + 1
    /\ \A k \in 1..Len(list) :
           /\ list[k]["name"] = ranked[lo + k - 1]["group_name"]
           /\ list[k]["marks"] = ranked[lo + k - 1]["overall_total_marks"]

\* the last min(5, n) ranks of n
ClaimLastFive(n) == IF n < 5 THEN 1 ELSE n - 4

\* C14: the bottom list of a ranked panchayat list of n > 6 units is the
\* units at ranks n-5 .. n-1, the lowest left out; for n <= 6 panchayats, and
\* for the districts whatever their number, it is the last min(5, n) units,
\* the lowest included.
C14_PanchayatBottomSkipsLowest ==
    /\ (mode = "run" /\ result # NoSummary) =>
           ClaimShowsRanks(result["districts"]["bottom5"], district_data,
                           ClaimLastFive(Len(district_data)), Len(district_data))
    /\ (ClaimPanchayatsJudged /\ f_out # <<>>) =>
           LET n == Len(f_out)
               bottom == ClaimJudgedDetail["panchayats"]["bottom5"]
           IN IF n > 6
              THEN ClaimShowsRanks(bottom, f_out, n - 5, n - 1)
              ELSE ClaimShowsRanks(bottom, f_out, ClaimLastFive(n), n)

\* twelve panchayats: ranks 7 to 11 are shown, the twelfth is not
C14_Witness ==
    /\ ClaimPanchayatsJudged
    /\ Len(f_out) = 12
    /\ Len(district_data) = 8
    /\ ClaimShowsRanks(ClaimJudgedDetail["panchayats"]["bottom5"], f_out, 7, 11)
    /\ result["districts"]["bottom5"][5]["name"] = district_data[8]["group_name"]

\* the unit of f_out that is r-th counting from the bottom of the ranked list
ClaimFromBottom(r) == f_out[Len(f_out) + 1 - r]

\* C15 as stated: with more than 6 panchayats the bottom list is the units
\* ranked 6 to 10 counting from the bottom (as many of them as there are).
C15_BottomIsSixthToTenth ==
    (ClaimPanchayatsJudged /\ Len(f_out) > 6) =>
        LET n == Len(f_out)
            bottom == ClaimJudgedDetail["panchayats"]["bottom5"]
            deepest == IF n < 10 THEN n ELSE 10
        IN /\ Len(bottom) = deepest - 5
           /\ \A k \in 1..Len(bottom) :
                  bottom[k]["name"] = ClaimFromBottom(deepest + 1 - k)["group_name"]

\* C15 as amended: with more than 6 panchayats the bottom list is the five
\* units ranked 2 to 6 counting from the bottom, in ranking order; the
\* lowest unit is not in it, so it is not the absolute last five.
C15_BottomIsSecondToSixth ==
    (ClaimPanchayatsJudged /\ Len(f_out) > 6) =>
        LET bottom == ClaimJudgedDetail["panchayats"]["bottom5"]
        IN /\ Len(bottom) = 5
           /\ \A k \in 1..5 :
                  bottom[k]["name"] = ClaimFromBottom(7 - k)["group_name"]
           /\ \A k \in 1..5 :
                  bottom[k]["name"] # ClaimFromBottom(1)["group_name"]

\* seven panchayats, one more than N + 1: ranks 2 to 6 of 7 are shown
C15_Witness ==
    /\ ClaimPanchayatsJudged
    /\ Len(f_out) = 7
    /\ ClaimJudgedDetail["panchayats"]["bottom5"][1]["name"] = f_out[2]["group_name"]
    /\ ClaimJudgedDetail["panchayats"]["bottom5"][5]["name"] = f_out[6]["group_name"]

\* no unit of the state list has exactly the selected district's group_name
ClaimDistrictMissing ==
    \A i \in 1..Len(district_data) : district_data[i]["group_name"] # SelectedDistrict

\* C16: when no unit of the state list has exactly the selected district's
\* group_name, the run ends with a summary that has the state-level section
\* (metadata with the state average, top5 and bottom5 of the districts) and
\* no selectedDistrict section, after the 15 state-scope fetches and no other.
C16_MissingDistrictOmitted ==
    (RunEnded /\ ClaimDistrictMissing) =>
        /\ pc = "done"
        /\ DOMAIN result = {"metadata", "districts"}
        /\ result["metadata"]["stateAverage"]
               = calculate_state_average(district_data).value
        /\ Len(result["districts"]["top5"]) = Len(district_data)
        /\ Len(result["districts"]["bottom5"]) = Len(district_data)
        /\ scope = "state"
        /\ fetches = NumEndpoints

\* the state list has a district whose name differs from the selected one's
\* by case only
C16_Witness ==
    /\ RunEnded
    /\ ClaimDistrictMissing
    /\ \E i \in 1..Len(district_data) :
           clean_string_for_comparison(district_data[i]["group_name"])
               = clean_string_for_comparison(SelectedDistrict)
    /\ Len(district_data) = 2
    /\ "districts" \in DOMAIN result

ClaimHasSection(summary) == "selectedDistrict" \in DOMAIN summary

\* the block details of the section, none while it has no blockDetails yet
ClaimDetails(summary) ==
    IF "blockDetails" \in DOMAIN summary["selectedDistrict"]
    THEN {summary["selectedDistrict"]["blockDetails"][k] :
             k \in 1..Len(summary["selectedDistrict"]["blockDetails"])}
    ELSE {}

\* the number of blocks whose panchayats have been fetched and judged
ClaimBlocksJudged == IF pc = "done" THEN bi ELSE bi - 1

\* get_block_data was given no rows: the summary is returned with the
\* selected district's section and an empty blockDetails
ClaimNoBlocksIsFine ==
    (mode = "run" /\ scope = "block" /\ f_kind = "block" /\ f_data = <<>>) =>
        /\ pc = "done"
        /\ ClaimHasSection(result)
        /\ result["selectedDistrict"]["name"] = SelectedDistrict
        /\ result["selectedDistrict"]["blockDetails"] = <<>>
        /\ fetches = 2 * NumEndpoints

\* every block judged so far has its detail, and the block judged last has a
\* panchayats entry exactly if get_panchayat_data returned units; it has
\* none when the panchayat fetches gave no rows
ClaimNoPanchayatsIsFine ==
    ClaimPanchayatsJudged =>
        /\ Len(result["selectedDistrict"]["blockDetails"]) = ClaimBlocksJudged
        /\ \A k \in 1..ClaimBlocksJudged :
               \E d \in ClaimDetails(result) :
                   /\ d["name"] = block_data[k]["group_name"]
                   /\ d["marks"] = block_data[k]["overall_total_marks"]
        /\ ("panchayats" \in DOMAIN ClaimJudgedDetail) = (f_out # <<>>)
        /\ f_data = <<>> => "panchayats" \notin DOMAIN ClaimJudgedDetail

\* the details of the blocks judged earlier stay as they are
ClaimDetailsKept ==
    (mode = "run" /\ ClaimHasSection(result) /\ ClaimHasSection(result')) =>
        ClaimDetails(result) \subseteq ClaimDetails(result')

\* C17: if the block-scope fetches fail or return no rows, the summary is
\* still returned, with the selected district's section and an empty
\* blockDetails; if the panchayat-scope fetches of a block fail or return no
\* rows, that block is in blockDetails without a panchayats entry, and the
\* details of the other blocks are what they would be anyway.
C17_LowerScopesDegrade ==
    /\ [](ClaimNoBlocksIsFine /\ ClaimNoPanchayatsIsFine)
    /\ [][ClaimDetailsKept]_vars

\* two blocks: the first has panchayats, all fetches for the second gave no
\* rows (the last one failed), and both are in blockDetails
C17_Witness ==
    /\ ClaimPanchayatsJudged
    /\ pc = "done"
    /\ bi = 2
    /\ f_data = <<>>
    /\ last.outcome \in FailOutcomes
    /\ "panchayats" \notin DOMAIN ClaimJudgedDetail
    /\ \E d \in ClaimDetails(result) :
           d["name"] = block_data[1]["group_name"] /\ "panchayats" \in DOMAIN d

\* the comparison of a unit of these marks with the state average of the summary
ClaimComparedTo(unit, average) ==
    LET compared == unit["comparedToStateAverage"] IN
    /\ unit["marks"].k = "num"
    /\ compared["stateAverage"] = average
    /\ compared["difference"] = JNum(unit["marks"].n - average.n)
    /\ compared["isAbove"] = (unit["marks"].n > average.n)
    /\ compared["isAbove"] = (compared["difference"].n > 0)

\* C18: the state average is the mean of overall_total_marks over all units
\* of the state list, to the nearest hundredth; the selected district and
\* every block are compared with that same average: difference is the
\* unit's marks minus the average, and isAbove holds exactly if the marks are
\* strictly greater, that is, exactly if the difference is positive.
C18_ComparedWithStateAverage ==
    (mode = "run" /\ result # NoSummary) =>
        LET n == Len(district_data)
            average == result["metadata"]["stateAverage"]
        IN /\ average.k = "num"
           /\ average.n % 10 = 0
           /\ IF n = 0 THEN average.n = 0
              ELSE 2 * (average.n * n - ClaimScoreSum) \in (-10 * n)..(10 * n)
           /\ ClaimHasSection(result) =>
                  /\ ClaimComparedTo(result["selectedDistrict"], average)
                  /\ \A d \in ClaimDetails(result) : ClaimComparedTo(d, average)

\* eight districts whose marks add up to 520.28: the mean 65.035 lies midway
\* between two hundredths and the average is 65.03; the selected district,
\* of 10 marks, is 55.03 below it, one block is above it and one below
C18_Witness ==
    /\ mode = "run"
    /\ pc = "done"
    /\ ClaimHasSection(result)
    /\ Len(district_data) = 8
    /\ ClaimScoreSum = 520280
    /\ result["metadata"]["stateAverage"] = JNum(65030)
    /\ result["selectedDistrict"]["comparedToStateAverage"]["difference"] = JNum(-55030)
    /\ \E d \in ClaimDetails(result) : d["comparedToStateAverage"]["isAbove"]
    /\ \E d \in ClaimDetails(result) : ~d["comparedToStateAverage"]["isAbove"]

\* the position in block_data, the order of processing, of the block of a detail
ClaimProcessedAt(detail) ==
    CHOOSE k \in 1..Len(block_data) : block_data[k]["group_name"] = detail["name"]

\* C19: in every returned summary with a selected district, blockDetails is
\* in descending order of marks, blocks of equal marks in the order they
\* were processed, whatever the panchayat fetches returned.
C19_BlockDetailsSorted ==
    (mode = "run" /\ pc = "done" /\ ClaimHasSection(result)) =>
        LET details == result["selectedDistrict"]["blockDetails"] IN
        /\ Len(details) = Len(block_data)
        /\ \A k, l \in 1..Len(details) :
               k < l =>
                   /\ details[k]["marks"].n >= details[l]["marks"].n
                   /\ details[k]["marks"] = details[l]["marks"]
                          => ClaimProcessedAt(details[k]) < ClaimProcessedAt(details[l])

\* two blocks of different marks, only the lower one with panchayats
C19_Witness ==
    /\ mode = "run"
    /\ pc = "done"
    /\ ClaimHasSection(result)
    /\ Len(result["selectedDistrict"]["blockDetails"]) = 2
    /\ result["selectedDistrict"]["blockDetails"][1]["marks"].n
           > result["selectedDistrict"]["blockDetails"][2]["marks"].n
    /\ "panchayats" \notin DOMAIN result["selectedDistrict"]["blockDetails"][1]
    /\ "panchayats" \in DOMAIN result["selectedDistrict"]["blockDetails"][2]

\* C20: scoring drops no unit: the list combine_data returns for a non-empty
\* merged list has the same length and the same set of group_names.
C20_ScoringKeepsEveryUnit ==
    (mode = "combine" /\ pc = "done" /\ merged # <<>>) =>
        /\ Len(combined) = Len(merged)
        /\ ClaimNames(combined) = ClaimNames(merged)

\* two merged units, one of them with a mark that is text, both returned
C20_Witness ==
    /\ mode = "combine"
    /\ pc = "done"
    /\ Len(merged) = 2
    /\ \E i \in 1..Len(merged) : Get(merged[i], "pd_marks").k = "str"
    /\ Len(combined) = 2

ClaimUnits(units) == {units[i] : i \in 1..Len(units)}

\* C21: merging the sequence of endpoint results followed by itself gives
\* the same merged units, each with the same field values, as merging the
\* sequence once.
C21_MergeIdempotent ==
    (mode = "combine" /\ pc = "done") =>
        LET twice == MergeResults(results_data \o results_data) IN
        /\ ClaimUnits(twice) = ClaimUnits(merged)
        /\ Len(twice) = Len(merged)

\* a unit whose marks arrived twice with different values: the later value
\* stands, after one merge and after two
C21_Witness ==
    /\ mode = "combine"
    /\ pc = "done"
    /\ LET flat == FlatRecords(results_data) IN
       \E j, k \in 1..Len(flat) :
           /\ j < k
           /\ {"group_name", "marks"} \subseteq DOMAIN flat[j]
           /\ {"group_name", "marks"} \subseteq DOMAIN flat[k]
           /\ flat[j]["group_name"] = flat[k]["group_name"]
           /\ flat[j]["marks"] # flat[k]["marks"]
           /\ \E i \in 1..Len(merged) :
                  /\ merged[i]["group_name"] = flat[k]["group_name"]
                  /\ merged[i]["marks"] = flat[k]["marks"]
    /\ MergeResults(results_data \o results_data) = merged

ClaimScopeRank(sc) == CASE sc = "state" -> 1 [] sc = "block" -> 2 [] sc = "panchayat" -> 3

\* C22: the scopes are fetched in the order state, block, panchayat per
\* block, never going back: a fetch takes the next endpoint of
\* API_ENDPOINTS within the current scope and block, and the scope or the
\* block changes only forward and only once all 15 endpoints of the current
\* one have been fetched, the next one starting at the first endpoint.
C22_ScopesInOrder ==
    [][ /\ mode = "run"
           => /\ ClaimScopeRank(scope') >= ClaimScopeRank(scope)
              /\ bi' >= bi
              /\ bi' <= bi + 1
              /\ scope # "panchayat" => bi = 0
              /\ fetches' # fetches
                   => /\ fetches' = fetches + 1
                      /\ last'.endpoint = ep
                      /\ ep' = ep + 1
                      /\ Len(results_data) = ep - 1
                      /\ scope' = scope
                      /\ bi' = bi
              /\ (scope' # scope \/ bi' # bi)
                   => /\ Len(results_data) = NumEndpoints
                      /\ ep = NumEndpoints + 1
                      /\ ep' = 1
                      /\ results_data' = <<>>
                      /\ fetches' = fetches
                      /\ ClaimScopeRank(scope') <= ClaimScopeRank(scope) + 1
              /\ ep' # ep => (fetches' # fetches \/ scope' # scope \/ bi' # bi) ]_vars

\* the second block's panchayat fetches are under way, after 45 fetches for
\* the state, the blocks and the first block's panchayats
C22_Witness ==
    /\ mode = "run"
    /\ scope = "panchayat"
    /\ bi = 2
    /\ pc = "fetch"
    /\ ep = 3
    /\ fetches = 3 * NumEndpoints + 2

ClaimDistrictFound == find_item_by_name(district_data, SelectedDistrict) # 0

\* the number of fetches the claim gives for a run: 15 for the state scope,
\* 15 for the block scope and 15 for every retained block
ClaimFetchCount ==
    IF ClaimDistrictFound THEN NumEndpoints * (2 + Len(block_data)) ELSE NumEndpoints

\* C23: a run ends after exactly 15 x (2 + number of retained blocks)
\* fetches when the selected district is found, and after 15 fetches
\* otherwise: every endpoint of every scope is fetched once, none twice.
C23_EveryScopeFetchedOnce ==
    RunEnded => fetches = ClaimFetchCount

\* the same count for the runs that return a summary
C23_SummarisedRunsFetchOnce ==
    (mode = "run" /\ pc = "done") => fetches = ClaimFetchCount

\* a summarised run with two retained blocks and one dropped: 60 fetches
C23_Witness ==
    /\ mode = "run"
    /\ pc = "done"
    /\ ClaimDistrictFound
    /\ Len(block_data) = 2
    /\ Len(f_data) >= 1
    /\ fetches = 4 * NumEndpoints

\* one of the summed fields is on the unit with a null or a text
ClaimCoercedField(item) ==
    \E f \in {"marks_prev", "marks_curr", "phase_0_assets_geotag_marks",
              "phase_1_before_geotag_marks", "phase_2_during_geotag_marks",
              "phase_3_after_geotag_marks"} \cap DOMAIN item : item[f].k # "num"

\* C28: building the summary never fails on a unit that scoring accepted:
\* the componentMarks of the selected district and of every retained block
\* are computed without raising, also when a summed field is null or a text
\* that scoring counted as 0, so no run ends without its summary.
C28_SummaryNeverRaises ==
    mode = "run" =>
        /\ pc # "failed"
        /\ ClaimDistrictFound =>
              ~component_marks(
                  district_data[find_item_by_name(district_data, SelectedDistrict)]).raised
        /\ \A i \in 1..Len(block_data) : ~component_marks(block_data[i]).raised

\* a run that ended without a summary, the selected district scored (0, D)
\* with marks_prev null
C28_Witness ==
    /\ mode = "run"
    /\ pc = "failed"
    /\ scope = "state"
    /\ ClaimDistrictFound
    /\ LET item == district_data[find_item_by_name(district_data, SelectedDistrict)]
       IN /\ ClaimCoercedField(item)
          /\ item["overall_total_marks"].k = "num"
          /\ component_marks(item).raised
    /\ result = NoSummary

\* a run that ended after 30 fetches although a block was retained: its
\* componentMarks raised before its panchayats were fetched
C23_AbortedWitness ==
    /\ mode = "run"
    /\ pc = "failed"
    /\ scope = "block"
    /\ Len(block_data) >= 1
    /\ fetches = 2 * NumEndpoints

\* the answer each endpoint gave, in API_ENDPOINTS order
ClaimResponses ==
    [e \in 1..NumEndpoints |->
        shadow[CHOOSE i \in 1..Len(shadow) : shadow[i].endpoint = e].response]

\* the endpoints in the order their answers arrived
ClaimArrivalOrder == [i \in 1..Len(shadow) |-> shadow[i].endpoint]

\* the variant has returned its list
ClaimVariantReturned == mode = "parallel" /\ pc = "done"

\* C24: when the 15 fetches of a scope complete in any arrival order and
\* their results are merged only after all have completed, in API_ENDPOINTS
\* order, the merged, scored and sorted list is the one combine_data
\* produces when it fetches the same answers one after the other.
C24_ArrivalOrderUnobservable ==
    ClaimVariantReturned =>
        /\ Len(shadow) = NumEndpoints
        /\ combine_data(ClaimResponses) = Fine(combined)

\* the last endpoint answered before the one before it, both with marks for
\* the same unit, and merging in arrival order would have given another list
C24_Witness ==
    /\ ClaimVariantReturned
    /\ ClaimArrivalOrder[NumEndpoints - 1] = NumEndpoints
    /\ ClaimArrivalOrder[NumEndpoints] = NumEndpoints - 1
    /\ combine_tail(in_arrival_order(shadow)) # Fine(combined)
    /\ Len(combined) >= 1

ClaimAliases == <<"registered_worker", "total_registered_workers", "Total Registered Workers">>

\* the value of the first alias that is a key of the unit, null if none is
ClaimFirstPresent(unit) ==
    LET present == {i \in 1..3 : ClaimAliases[i] \in DOMAIN unit}
    IN IF present = {} THEN JNull
       ELSE unit[ClaimAliases[CHOOSE i \in present : \A j \in present : i <= j]]

\* the value of the first alias that is a key of the unit with a value other
\* than null, null if there is none
ClaimFirstNonNull(unit) ==
    LET usable == {i \in 1..3 : ClaimAliases[i] \in DOMAIN unit
                                  /\ unit[ClaimAliases[i]] # JNull}
    IN IF usable = {} THEN JNull
       ELSE unit[ClaimAliases[CHOOSE i \in usable : \A j \in usable : i <= j]]

\* what the name-collision pass keeps when `count` is the worker count
ClaimCollisionPass(count(_)) ==
    LET empty(unit) == count(unit) = JNull \/ count(unit) \in ClaimZeros
        dropped(unit) ==
            IF f_kind = "block"
            THEN ClaimCollides(unit, FilterDistrict) /\ empty(unit)
            ELSE /\ ClaimCollides(unit, FilterDistrict) \/ ClaimCollides(unit, FilterBlock)
                 /\ empty(unit)
    IN SelectSeq(f_data, LAMBDA unit : ~dropped(unit))

\* C25 as stated: the worker count of the name-collision pass is the value
\* of the first of registered_worker, total_registered_workers, "Total
\* Registered Workers" that is present on the unit, and it is null only when
\* none of the three is present.
C25_FirstPresentAliasWins ==
    (mode = "filter" /\ pc = "done") =>
        /\ f_first = ClaimCollisionPass(ClaimFirstPresent)
        /\ \A i \in 1..Len(f_data) :
              total_workers(f_data[i]) = JNull
                  <=> \A j \in 1..3 : ClaimAliases[j] \notin DOMAIN f_data[i]

\* C25 as amended: the worker count is the value of the first of the three
\* aliases, in that order, whose value on the unit is not null; an alias that
\* is present with a null value is passed over, later aliases are ignored
\* once a value is found, and the count is null only when no alias has a
\* value other than null.
C25_FirstNonNullAliasWins ==
    (mode = "filter" /\ pc = "done") =>
        /\ f_first = ClaimCollisionPass(ClaimFirstNonNull)
        /\ \A i \in 1..Len(f_data) : total_workers(f_data[i]) = ClaimFirstNonNull(f_data[i])

\* a unit named like the district with registered_worker null and 5 workers
\* under the second alias is kept; one with 0 under the first alias and 5
\* under the second is dropped
C25_Witness ==
    /\ mode = "filter"
    /\ pc = "done"
    /\ \E i \in 1..Len(f_data) :
          /\ ClaimCollides(f_data[i], FilterDistrict)
          /\ Get(f_data[i], "registered_worker") = JNull
          /\ "registered_worker" \in DOMAIN f_data[i]
          /\ Get(f_data[i], "total_registered_workers") = JNum(5000)
          /\ \E j \in 1..Len(f_first) : f_first[j] = f_data[i]
    /\ \E i \in 1..Len(f_data) :
          /\ ClaimCollides(f_data[i], FilterDistrict)
          /\ Get(f_data[i], "registered_worker") = JInt(1, <<>>)
          /\ Get(f_data[i], "total_registered_workers") = JNum(5000)
          /\ \A j \in 1..Len(f_first) : f_first[j] # f_data[i]

\* every field a unit of the list was merged with comes from a record of
\* `data_objs` that bears the unit's name
ClaimMergedFrom(units, data_objs) ==
    LET flat == FlatRecords(data_objs) IN
    \A i \in 1..Len(units) :
       \A f \in DOMAIN units[i] \ {"overall_total_marks", "grade"} :
          \E j \in 1..Len(flat) :
             /\ {"group_name", f} \subseteq DOMAIN flat[j]
             /\ flat[j]["group_name"] = units[i]["group_name"]
             /\ flat[j][f] = units[i][f]

\* C26: no state is shared between combine_data calls: the list a call
\* returns holds only units and fields of the records fetched by that call,
\* and once the state-scope list is built, the block and panchayat scopes
\* leave it, the state average and the district top5/bottom5 as they are.
C26_NothingSharedBetweenCalls ==
    [][ mode = "run" =>
          /\ combined' # combined =>
                /\ ClaimMergedFrom(combined', results_data)
                /\ ClaimMergedFrom(merged', results_data)
          /\ scope # "state" => district_data' = district_data
          /\ (result # NoSummary /\ result' # NoSummary) =>
                /\ result'["metadata"] = result["metadata"]
                /\ result'["districts"] = result["districts"] ]_vars

\* a finished run with districts, two blocks and a panchayat list for each
C26_Witness ==
    /\ mode = "run"
    /\ pc = "done"
    /\ scope = "panchayat"
    /\ bi = 2
    /\ Len(district_data) >= 2
    /\ Len(combined) >= 1
    /\ result["districts"]["top5"] # <<>>
    /\ \A i \in 1..2 : "panchayats" \in DOMAIN result["selectedDistrict"]["blockDetails"][i]

\* the highest score the name-collision pass left
ClaimTopScore == ClaimFirstScore(1)

\* C27: with non-negative scores and the statistical pass active, no unit
\* with the highest score of the list is removed: the filter's output is not
\* empty and begins with the top-ranked unit.
C27_TopUnitSurvives ==
    ClaimPassActive =>
        /\ \A i \in 1..Len(f_first) : ClaimFirstScore(i) >= 0
        /\ \A i \in 1..Len(f_first) : ClaimFirstScore(i) <= ClaimTopScore
        /\ f_out # <<>>
        /\ f_out[1] = f_first[1]
        /\ \A i \in 1..Len(f_first) :
              ClaimFirstScore(i) = ClaimTopScore
                  => \E k \in 1..Len(f_out) : f_out[k] = f_first[i]

\* every unit scores 0: none is strictly below 60% of a mean of 0, all stay
C27_Witness ==
    /\ ClaimPassActive
    /\ f_kind = "block"
    /\ \A i \in 1..Len(f_first) : ClaimFirstScore(i) = 0
    /\ f_out = f_first

\* two units share the highest score and a unit far below is removed
C27_TieWitness ==
    /\ ClaimPassActive
    /\ ClaimFirstScore(2) = ClaimTopScore
    /\ Len(f_out) < Len(f_first)
    /\ ClaimTopScore > 0

\* the list without the unit at position i
ClaimWithout(units, i) ==
    [k \in 1..(Len(units) - 1) |-> IF k < i THEN units[k] ELSE units[k + 1]]

\* the peers is_outlier_score takes for the unit at position i
ClaimPeers(units, i) ==
    SelectSeq(units, LAMBDA x : Get(x, "group_name") # Get(units[i], "group_name"))

ClaimDistinctlyNamed(units) ==
    /\ \A i \in 1..Len(units) : "group_name" \in DOMAIN units[i]
    /\ \A i, j \in 1..Len(units) :
          i # j => units[i]["group_name"] # units[j]["group_name"]
    /\ \A i \in 1..Len(units) : ClaimPeers(units, i) = ClaimWithout(units, i)

\* C29: in every list combine_data, get_district_data, get_block_data and
\* get_panchayat_data return, every unit has a group_name and no two units
\* have the same one, so the peers of a unit in is_outlier_score are the
\* list without that one unit.
C29_UnitsDistinctlyNamed ==
    mode = "run" =>
        /\ ClaimDistinctlyNamed(merged)
        /\ ClaimDistinctlyNamed(combined)
        /\ ClaimDistinctlyNamed(district_data)
        /\ ClaimDistinctlyNamed(f_data)
        /\ ClaimDistinctlyNamed(f_first)
        /\ ClaimDistinctlyNamed(f_out)
        /\ ClaimDistinctlyNamed(block_data)

\* a run whose block list holds a unit merged from two records, next to two
\* districts and a panchayat
C29_Witness ==
    /\ mode = "run"
    /\ pc = "done"
    /\ Len(district_data) >= 2
    /\ \E i \in 1..Len(block_data) : {"marks", "pd_marks"} \subseteq DOMAIN block_data[i]
    /\ f_kind = "panchayat"
    /\ Len(f_out) >= 1

ClaimShownNames(shown) == {shown[i]["name"] : i \in 1..Len(shown)}

ClaimTopBottomDisjoint ==
    ClaimShownNames(result["top5"]) \cap ClaimShownNames(result["bottom5"]) = {}

\* C30 as stated: top5 and bottom5 share no unit whenever the ranked list
\* has at least 10 units, for district lists and for panchayat lists alike.
C30_DisjointFromTen ==
    (mode = "extract" /\ pc = "done" /\ Len(f_data) >= 10) => ClaimTopBottomDisjoint

\* C30 as amended: top5 and bottom5 share no unit whenever a district list
\* has at least 10 units and whenever a panchayat list has at least 11; a
\* panchayat list of exactly 10 units has its fifth unit in both, the bottom
\* five being the fifth to the ninth once the lowest is dropped.
C30_DisjointFromTenOrEleven ==
    (mode = "extract" /\ pc = "done") =>
        /\ (f_kind = "district" /\ Len(f_data) >= 10) => ClaimTopBottomDisjoint
        /\ (f_kind = "panchayat" /\ Len(f_data) >= 11) => ClaimTopBottomDisjoint
        /\ (f_kind = "panchayat" /\ Len(f_data) = 10) =>
              /\ ClaimShownNames(result["top5"]) \cap ClaimShownNames(result["bottom5"])
                     = {f_data[5]["group_name"]}
              /\ result["bottom5"] = [k \in 1..5 |-> display_item(f_data[k + 4])]

\* eleven panchayats: top5 is the first five, bottom5 the sixth to the tenth
C30_Witness ==
    /\ mode = "extract"
    /\ pc = "done"
    /\ f_kind = "panchayat"
    /\ Len(f_data) = 11
    /\ result["top5"] = [k \in 1..5 |-> display_item(f_data[k])]
    /\ result["bottom5"] = [k \in 1..5 |-> display_item(f_data[k + 5])]

====
